---- MODULE Spec2Model ----
(***************************************************************************)
(* data-veil: the per-channel veil operations (barometer, magnetometer,    *)
(* RF, ultrasonic, IMU), the fusion engine and the shared random source.   *)
(*                                                                         *)
(* Numbers are fixed point.  Channel values and timestamps are integers    *)
(* in units of 1e-4; unitless curves (sin, drift, envelopes, weights,      *)
(* normalised time) are integers in units of 1e-3 ("milli"); angles are    *)
(* in 1e-3 turns; strength is given in tenths.                             *)
(***************************************************************************)
EXTENDS Integers, Sequences, FiniteSets, TLC

\* Largest channel length a caller passes.
MaxN == 8

\* Largest number of required channels a caller leaves out (when not all).
MaxMissing == 2

\* Largest number of rows of an array passed to veil_lidar.
MaxPts == 3

\* Python's None, where the other values are integers.
None == -1000

----------------------------------------------------------------------------
(* Arithmetic helpers                                                      *)

\* The sequence f with every element computed (a function over 1..n as a tuple).
Arr(f) == SubSeq(f, 1, Len(f))

Max2(a, b) == IF a >= b THEN a ELSE b
Min2(a, b) == IF a <= b THEN a ELSE b
Abs(a) == IF a >= 0 THEN a ELSE -a

\* Python int(): truncation towards zero of num/den (den > 0).
TruncDiv(num, den) == IF num >= 0 THEN num \div den ELSE -((-num) \div den)

RECURSIVE SumSeq(_)
SumSeq(s) == IF s = <<>> THEN 0 ELSE Head(s) + SumSeq(Tail(s))

\* The least and the greatest of s[lo..hi], by halves.
RECURSIVE MinIn(_, _, _)
MinIn(s, lo, hi) ==
    IF lo = hi THEN s[lo]
    ELSE Min2(MinIn(s, lo, (lo + hi) \div 2), MinIn(s, (lo + hi) \div 2 + 1, hi))

RECURSIVE MaxIn(_, _, _)
MaxIn(s, lo, hi) ==
    IF lo = hi THEN s[lo]
    ELSE Max2(MaxIn(s, lo, (lo + hi) \div 2), MaxIn(s, (lo + hi) \div 2 + 1, hi))

\* np.min and np.max of a non-empty array
SeqMin(s) == MinIn(s, 1, Len(s))

SeqMax(s) == MaxIn(s, 1, Len(s))

RECURSIVE SqrtIter(_, _)
SqrtIter(x, r) ==
    LET r2 == (r + x \div r) \div 2
    IN  IF r2 >= r THEN r ELSE SqrtIter(x, r2)

\* Integer square root (Newton iteration).
ISqrt(x) == IF x <= 0 THEN 0 ELSE SqrtIter(x, x)

\* ndarray.std(): population standard deviation of a non-empty sequence.
Std(s) ==
    LET n == Len(s)
        mean == SumSeq(s) \div n
        sq == [i \in 1..n |-> (s[i] - mean) * (s[i] - mean)]
    IN  ISqrt(SumSeq(sq) \div n)

\* np.cumsum
RECURSIVE CumSumTo(_, _)
CumSumTo(s, i) == IF i = 0 THEN 0 ELSE s[i] + CumSumTo(s, i - 1)
CumSum(s) == [i \in 1..Len(s) |-> CumSumTo(s, i)]

\* sin of an angle given in 1e-3 turns, result in 1e-3 (Bhaskara's rational
\* approximation on each half period).
SinM(a) ==
    LET x == a % 1000
        h == x % 500
        q == h * (500 - h)
        v == (16000 * q) \div (1250000 - 4 * q)
    IN  IF x < 500 THEN v ELSE -v

CosM(a) == SinM(a + 250)

\* np.linspace(0.0, 1.0, m) in 1e-3; a single point is 0.0.
Linspace01(m) == [i \in 1..m |-> IF m = 1 THEN 0 ELSE ((i - 1) * 1000) \div (m - 1)]

\* base * (1 - base) * 4, the symmetric bump over a window, in 1e-3.
Bump(base) == [i \in 1..Len(base) |-> (base[i] * (1000 - base[i]) * 4) \div 1000]

----------------------------------------------------------------------------
(* Arrays and samples                                                      *)
(*                                                                         *)
(* An ndarray is [buf, dtype, ndim, data]: buf names the storage it reads  *)
(* and writes (two arrays with the same buf share storage), data is its    *)
(* content.  A sample is a function from channel names to arrays.          *)

AllKeys == <<"t", "pressure", "mx", "my", "mz", "power", "range",
             "gx", "gy", "gz", "ax", "ay", "az", "aux">>

KeyIdx(k) == CHOOSE i \in 1..Len(AllKeys) : AllKeys[i] = k

\* Value stored by a float32 array for the value x: float32 holds fewer
\* values than float64; here the representable values are the even ones.
F32(x) == ((x + 1) \div 2) * 2

\* np.asarray(v, dtype=np.float32): a float32 array is returned as it is
\* (same object, same storage); anything else is converted into a new one.
AsArrayF32(v, k) ==
    IF v.dtype = "f4" THEN v
    ELSE [buf |-> 40 + KeyIdx(k), dtype |-> "f4", ndim |-> v.ndim,
          data |-> [i \in 1..Len(v.data) |-> F32(v.data[i])]]

\* A faulty .copy(): the array itself is handed back.
CopyAliased(a, k) == a

\* ndarray.copy(): same content in storage of its own.
Copy(a, k) == [a EXCEPT !.buf = 20 + KeyIdx(k)]

\* A faulty copy of the sample: a channel that is not required is left out.
CopyAllNoAux(sample) ==
    [k \in DOMAIN sample \ {"aux"} |-> Copy(AsArrayF32(sample[k], k), k)]

\* {k: np.asarray(v, dtype=np.float32).copy() for k, v in sample.items()}
CopyAll(sample) == [k \in DOMAIN sample |-> Copy(AsArrayF32(sample[k], k), k)]

\* A faulty required - set(keys): every required key is reported.
MissingKeysAll(required, sample) == required

\* required - set(sample.keys())
MissingKeys(required, sample) == required \ DOMAIN sample

----------------------------------------------------------------------------
(* random_control.py: the shared generator                                 *)
(*                                                                         *)
(* A Generator is its internal state, a number in 0..RngMod-1; each draw   *)
(* advances it by one and yields the raw value Mix[state].  A module is    *)
(* [rng, py, np]: _RNG, and the seeds last given to random.seed and        *)
(* np.random.seed.                                                         *)

\* Two threads calling veil operations on the shared generator (used by
\* SpecConc only; see there).
VARIABLE conc

RngMod == 8

Mix == <<5, 0, 3, 6, 1, 7, 2, 4>>

\* np.random.default_rng(seed): the state a seed leads to.
DefaultRng(seed) == (3 * seed + 1) % RngMod

\* The values the shared generator has handed to thread h - RngMod so far.
Tape(h) == conc.th[h - RngMod].got

\* The raw value of the k-th next draw (k = 0 is the next one).  A call in
\* progress in a thread (g >= RngMod) receives its k-th value from whatever
\* state the shared generator is in when the thread asks: position k is
\* the k-th value the thread was handed (0 while it has not asked yet).
Raw(g, k) ==
    IF g >= RngMod
    THEN IF k < Len(Tape(g)) THEN Tape(g)[k + 1] ELSE 0
    ELSE Mix[((g + k) % RngMod) + 1]

\* A faulty generator: drawing does not advance it.
AdvStuck(g, cnt) == g


\* The generator after cnt draws.
Adv(g, cnt) == (g + cnt) % RngMod

\* rng.uniform(0, 2*pi): an angle in 1e-3 turns.
PhaseOf(raw) == (raw * 1000) \div RngMod

\* rng.random(): a number in [0, 1), in 1e-3.
UnitOf(raw) == (raw * 1000) \div RngMod

\* rng.integers(lo, hi): an integer in lo..hi-1.
IntOf(raw, lo, hi) == lo + (raw * (hi - lo)) \div RngMod

\* rng.normal(0, 1): a standard normal deviate in 1e-3 (bounded, symmetric).
ZOf(raw) == ((2 * raw + 1 - RngMod) * 1600) \div RngMod

\* DATA_VEIL_SEED in the environment is unset, an integer literal ("7") or
\* junk ("x").  The environments the veil operations are run in:
VeilEnvs == {"unset", "x"}

\* int(env_seed): defined for integer literals only (ValueError otherwise).
EnvIsInt(e) == e = "7"
EnvInt(e) == IF e = "7" THEN 7 ELSE 0

\* A faulty seeding: no seed is accepted.
SeedNeverAccepted(v) == FALSE

\* np.random.seed and default_rng accept only seeds in 0 .. 2^32-1.
SeedAccepted(v) == v >= 0

\* set_seed(seed_value) on module m under environment e.
\* Result: [ok, seed, m].
set_seed(m, e, seed_value) ==
    IF seed_value = None /\ e # "unset" /\ ~EnvIsInt(e)
    THEN [ok |-> FALSE, seed |-> None, m |-> m]              \* int() raises
    ELSE
      LET v == IF seed_value # None THEN seed_value
               ELSE IF e # "unset" THEN EnvInt(e) ELSE 42
      IN  IF ~SeedAccepted(v)
          THEN [ok |-> FALSE, seed |-> None,
                m |-> [m EXCEPT !.py = v]]                   \* np.random.seed raises
          ELSE [ok |-> TRUE, seed |-> v,
                m |-> [rng |-> DefaultRng(v), py |-> v, np |-> v]]

\* A faulty get_rng(): it seeds the generator anew on every call.
get_rng_reseeding(m, e) ==
    LET r == set_seed(m, e, None) IN [ok |-> r.ok, m |-> r.m]

\* get_rng() on module m: [ok, m]; m.rng is the generator returned.
get_rng(m, e) ==
    IF m.rng = None
    THEN LET r == set_seed(m, e, None) IN [ok |-> r.ok, m |-> r.m]
    ELSE [ok |-> TRUE, m |-> m]

----------------------------------------------------------------------------
(* What a call does: it returns or raises, leaves the module in state m,   *)
(* has drawn `drew` values from the shared generator, and has written      *)
(* `written` (storage name -> content) in place.  `named` is the set of    *)
(* keys the error message names; info records statistics the call          *)
(* computed.                                                               *)

NoOut == [k \in {} |-> 0]
NoWrites == [b \in {} |-> <<>>]
\* What a call records of its anomaly stage: the windows applied and, for
\* each sample, whether an anomaly changed it.
NoStage == [wins |-> <<>>, touched |-> <<>>]

NoInfo == [n |-> 0, span |-> 0, std |-> 0, count |-> 0, lat |-> <<>>,
           stage |-> NoStage, den |-> 0]

Raised(why, named, m, drew, written) ==
    [status |-> "raise", exc |-> "ValueError", why |-> why, named |-> named,
     out |-> NoOut, m |-> m, drew |-> drew, written |-> written, info |-> NoInfo]

Returned(out, m, drew, written, info) ==
    [status |-> "return", exc |-> "", why |-> "", named |-> {},
     out |-> out, m |-> m, drew |-> drew, written |-> written, info |-> info]

\* The in-place writes of a call: the final content of each written array.
WritesOf(veiled, keys) ==
    [b \in {veiled[k].buf : k \in keys} |->
        (veiled[CHOOSE k \in keys : veiled[k].buf = b]).data]

\* span = max(x.max() - x.min(), 1e-3), in 1e-4
ChannelSpan(x) == Max2(SeqMax(x) - SeqMin(x), 10)

\* std = max(x.std(), 1e-3), in 1e-4
ChannelStd(x) == Max2(Std(x), 10)

\* A faulty denominator: the difference of the timestamps without a floor.
TimeDenomUnfloored(t) == (t[Len(t)] - t[1]) * 100

\* max(t[-1] - t[0], 1e-6), in 1e-6.  Timestamps are in 1e-4, so the floor
\* is 1/100 of a unit.
TimeDenom(t) == Max2((t[Len(t)] - t[1]) * 100, 1)

\* t_norm = (t - t[0]) / max(t[-1] - t[0], 1e-6), in 1e-3.
TNorm(t) ==
    LET n == Len(t)
        den == TimeDenom(t)
    IN  Arr([i \in 1..n |-> IF den > 1 THEN ((t[i] - t[1]) * 1000) \div (den \div 100)
                            ELSE (t[i] - t[1]) * 100000])

\* 2*pi*f*t_norm + phase in 1e-3 turns, for f = fm/1000 * strength.
Angle(fm, S, tn, ph) == (((fm * S) \div 10) * tn) \div 1000 + ph

\* rng.normal(0.0, 1.0, size=n) drawn from position pos on, in 1e-3.
NormalVec(g, pos, n) == Arr([j \in 1..n |-> ZOf(Raw(g, pos + j - 1))])

\* np.cumsum(rng.normal(0.0, sigma, size=n)) for sigma = sm/1000 * strength.
CumSteps(g, pos, n, sm, S) ==
    CumSum(Arr([j \in 1..n |-> TruncDiv(ZOf(Raw(g, pos + j - 1)) * sm * S, 10000)]))

\* The stage record of a loop of anomalies over n samples before any is applied.
Untouched(n) == [wins |-> <<>>, touched |-> Arr([j \in 1..n |-> FALSE])]

\* For each sample, whether x[3] has it or the channels x[1] and x[2] differ at it.
Differ(x) ==
    Arr([j \in 1..Len(x[3]) |-> x[3][j] \/ \E c \in 1..Len(x[1]) : x[1][c][j] # x[2][c][j]])

\* The samples of `prior` and those an anomaly changed, which made the
\* channels `before` into `after`.
Touched(before, after, prior) ==
    CHOOSE r \in {Differ(x) : x \in {<<before, after, prior>>}} : TRUE

\* The record of a loop of anomalies: the window [center, end) of the one
\* applied now is put before those of the later ones.
Won(rest, center, end, before, after) ==
    [rest EXCEPT !.stage = [wins |-> <<<<center, end>>>> \o @.wins,
                            touched |-> Touched(before, after, @.touched)]]

\* A faulty window: it starts one sample before the centre.
AddWindowEarly(x, lo, hi, amp, shape) ==
    Arr([j \in 1..Len(x) |->
           IF j >= lo /\ j <= hi THEN x[j] + TruncDiv(amp * shape[Max2(j - lo, 1)], 1000)
           ELSE x[j]])

\* x[lo:hi] += amp * shape (0-based half-open window, shape in 1e-3).
AddWindow(x, lo, hi, amp, shape) ==
    Arr([j \in 1..Len(x) |->
           IF j > lo /\ j <= hi THEN x[j] + TruncDiv(amp * shape[j - lo], 1000)
           ELSE x[j]])

\* x[lo:hi] = x[lo:hi] * (1 - envelope) + target * envelope
BlendWindow(x, lo, hi, target, envelope) ==
    Arr([j \in 1..Len(x) |->
           IF j > lo /\ j <= hi
           THEN TruncDiv(x[j] * (1000 - envelope[j - lo]) + target * envelope[j - lo], 1000)
           ELSE x[j]])

\* A faulty clip: samples outside [lo, hi] are dropped instead of clamped.
ClipDropping(x, lo, hi) == SelectSeq(x, LAMBDA v : v >= lo /\ v <= hi)

\* np.clip(x, lo, hi) = minimum(maximum(x, lo), hi)
Clip(x, lo, hi) == Arr([j \in 1..Len(x) |-> Min2(Max2(x[j], lo), hi)])

\* A faulty ordering: get_rng() is called before the n == 0 return.
EmptyReturnAfterRng(veiled, m, e) ==
    LET gr == get_rng(m, e)
    IN  IF gr.ok THEN Returned(veiled, gr.m, 0, NoWrites, NoInfo)
        ELSE Raised("seed", {}, gr.m, 0, NoWrites)

\* if n == 0: return veiled  -- before get_rng() is called
EmptyReturn(veiled, m, e) == Returned(veiled, m, 0, NoWrites, NoInfo)

\* A faulty count: the strength term is subtracted from the jitter.
AnomalyCountMinus(k, S, jitter) == Max2(jitter - TruncDiv(k * S, 10), 1)

\* count = int(k * strength) + rng.integers(0, hi); count = max(count, 1)
AnomalyCount(k, S, jitter) == Max2(TruncDiv(k * S, 10) + jitter, 1)

\* spike_count = int(6 * strength)  (veil_imu: no jitter, no floor)
SpikeCount(S) == TruncDiv(6 * S, 10)

\* The exclusive upper end of the jitter rng.integers(0, hi) of each operation
\* (veil_imu draws none).
JitterHigh(op) ==
    CASE op = "rf"  -> 4
      [] op = "imu" -> 1
      [] OTHER      -> 3

\* The number of anomaly events operation op attempts at strength S when its
\* jitter draw is j.
CountOf(op, S, j) ==
    CASE op = "barometer"    -> AnomalyCount(3, S, j)
      [] op = "rf"           -> AnomalyCount(3, S, j)
      [] op = "ultrasonic"   -> AnomalyCount(3, S, j)
      [] op = "magnetometer" -> AnomalyCount(4, S, j)
      [] OTHER               -> SpikeCount(S)

----------------------------------------------------------------------------
(* barometer.py                                                            *)

\* The anomaly loop of veil_barometer: `left` iterations from draw position
\* pos on.  Result: [p, pos, stage].
RECURSIVE BaroAnomalies(_, _, _, _, _, _)
BaroAnomalies(p, g, pos, left, std, S) ==
    IF left = 0 THEN [p |-> p, pos |-> pos, stage |-> Untouched(Len(p))]
    ELSE
      LET n == Len(p)
          center == IntOf(Raw(g, pos), 5, Max2(6, n - 5))
          span_len == IntOf(Raw(g, pos + 1), 15, 60)
          end == Min2(n, center + span_len)
      IN  IF end <= center
          THEN BaroAnomalies(p, g, pos + 2, left - 1, std, S)
          ELSE
            LET base == Linspace01(end - center)
                bump == Bump(base)
                shape_type == IntOf(Raw(g, pos + 2), 0, 3)
                shape == [i \in 1..Len(base) |->
                            IF shape_type = 0 THEN bump[i]
                            ELSE IF shape_type = 1 THEN -bump[i]
                            ELSE (base[i] - 500) * 2]
                amp == ((500 + (800 * UnitOf(Raw(g, pos + 3))) \div 1000) * std * S)
                          \div 10000
            IN  CHOOSE w \in {Won(BaroAnomalies(q, g, pos + 4, left - 1, std, S),
                                   center, end, <<p>>, <<q>>) :
                               q \in {AddWindow(p, center, end, amp, shape)}} : TRUE

veil_barometer(baro, S, m, e) ==
    LET missing == MissingKeys({"t", "pressure"}, baro) IN
    IF missing # {} THEN Raised("missing keys", missing, m, 0, NoWrites)
    ELSE
    LET veiled == CopyAll(baro)
        t == veiled["t"].data
        p == veiled["pressure"].data
        n == Len(t)
    IN
    IF n = 0 THEN EmptyReturn(veiled, m, e)
    ELSE
    LET gr == get_rng(m, e) IN
    IF ~gr.ok THEN Raised("seed", {}, gr.m, 0, NoWrites)
    ELSE
    LET g == gr.m.rng
        span == ChannelSpan(p)
        std == ChannelStd(p)
        tn == TNorm(t)
        \* 1) multi-frequency drift
        ph == [i \in 1..3 |-> PhaseOf(Raw(g, i - 1))]
        cumulative == CumSteps(g, 3, n, 2, S)
        drift == [j \in 1..n |->
                    LET a0 == Angle(100, S, tn[j], ph[1])
                        a1 == Angle(250, S, tn[j], ph[2])
                        a2 == Angle(450, S, tn[j], ph[3])
                    IN  TruncDiv(600 * SinM(a0), 1000)
                        + TruncDiv(400 * CosM(a1), 1000)
                        + TruncDiv(300 * SinM(a2 + 111) * CosM(a2 \div 2), 1000000)
                        + cumulative[j]]
        p1 == Arr([j \in 1..n |-> p[j] + TruncDiv(3 * span * drift[j], 100000)])
        \* 2) transient anomalies
        anomaly_count == CountOf("barometer", S, IntOf(Raw(g, 3 + n), 0, JitterHigh("barometer")))
        an == BaroAnomalies(p1, g, 4 + n, anomaly_count, std, S)
        \* 3) adaptive noise
        noise_sigma == (span * S) \div 1000
        env_phase == PhaseOf(Raw(g, an.pos))
        z == NormalVec(g, an.pos + 1, n)
        p3 == Arr([j \in 1..n |->
                 LET env == 500 + TruncDiv(500 * SinM((50 * tn[j]) \div 1000 + env_phase), 1000)
                 IN  an.p[j] + TruncDiv(z[j] * noise_sigma * env, 1000000)])
        drew == an.pos + 1 + n
        out == [veiled EXCEPT !["pressure"].data = p3]
    IN  Returned(out, [gr.m EXCEPT !.rng = Adv(g, drew)], drew,
                 WritesOf(out, {"pressure"}),
                 [n |-> n, span |-> span, std |-> std, count |-> anomaly_count, lat |-> <<>>,
                  den |-> TimeDenom(t),
                  stage |-> an.stage])

----------------------------------------------------------------------------
(* rf.py                                                                   *)

\* The burst loop of veil_rf.  Result: [p, pos, stage].
RECURSIVE RfBursts(_, _, _, _, _, _)
RfBursts(p, g, pos, left, std, S) ==
    IF left = 0 THEN [p |-> p, pos |-> pos, stage |-> Untouched(Len(p))]
    ELSE
      LET n == Len(p)
          center == IntOf(Raw(g, pos), 5, Max2(6, n - 5))
          span_len == IntOf(Raw(g, pos + 1), 15, 80)
          end == Min2(n, center + span_len)
      IN  IF end <= center
          THEN RfBursts(p, g, pos + 2, left - 1, std, S)
          ELSE
            LET window_len == end - center
                base == Linspace01(window_len)
                bump == Bump(base)
                shape_type == IntOf(Raw(g, pos + 2), 0, 3)
                \* spike_train alone draws window_len more values
                extra == IF shape_type = 0 THEN window_len ELSE 0
                shape == [i \in 1..window_len |->
                            IF shape_type = 0
                            THEN (IF UnitOf(Raw(g, pos + 3 + i - 1)) > 600 THEN bump[i] ELSE 0)
                            ELSE IF shape_type = 1 THEN bump[i]
                            ELSE -bump[i]]
                amp == ((1000 + (1500 * UnitOf(Raw(g, pos + 3 + extra))) \div 1000) * std * S)
                          \div 10000
            IN  CHOOSE w \in {Won(RfBursts(q, g, pos + 4 + extra, left - 1, std, S),
                                   center, end, <<p>>, <<q>>) :
                               q \in {AddWindow(p, center, end, amp, shape)}} : TRUE

veil_rf(rf, S, m, e) ==
    LET missing == MissingKeys({"t", "power"}, rf) IN
    IF missing # {} THEN Raised("missing keys", missing, m, 0, NoWrites)
    ELSE
    LET veiled == CopyAll(rf)
        t == veiled["t"].data
        power == veiled["power"].data
        n == Len(t)
    IN
    IF n = 0 THEN EmptyReturn(veiled, m, e)
    ELSE
    LET gr == get_rng(m, e) IN
    IF ~gr.ok THEN Raised("seed", {}, gr.m, 0, NoWrites)
    ELSE
    LET g == gr.m.rng
        span == ChannelSpan(power)
        std == ChannelStd(power)
        tn == TNorm(t)
        \* 1) multi-frequency baseline warping
        ph == [i \in 1..3 |-> PhaseOf(Raw(g, i - 1))]
        cumulative == CumSteps(g, 3, n, 10, S)
        baseline_warp == [j \in 1..n |->
                    LET a0 == Angle(150, S, tn[j], ph[1])
                        a1 == Angle(400, S, tn[j], ph[2])
                        a2 == Angle(800, S, tn[j], ph[3])
                    IN  TruncDiv(700 * SinM(a0), 1000)
                        + TruncDiv(500 * CosM(a1), 1000)
                        + TruncDiv(400 * SinM(a2 + 95) * CosM((4 * a2) \div 10), 1000000)
                        + cumulative[j]]
        p1 == Arr([j \in 1..n |-> power[j] + TruncDiv(2 * span * baseline_warp[j], 10000)])
        \* 2) interference bursts
        burst_count == CountOf("rf", S, IntOf(Raw(g, 3 + n), 0, JitterHigh("rf")))
        an == RfBursts(p1, g, 4 + n, burst_count, std, S)
        \* 3) adaptive noise
        noise_sigma == (5 * span * S) \div 1000
        env_phase == PhaseOf(Raw(g, an.pos))
        z == NormalVec(g, an.pos + 1, n)
        p3 == Arr([j \in 1..n |->
                 LET env == 400 + TruncDiv(600 * Abs(SinM((70 * tn[j]) \div 1000 + env_phase)), 1000)
                 IN  an.p[j] + TruncDiv(z[j] * noise_sigma * env, 1000000)])
        drew == an.pos + 1 + n
        out == [veiled EXCEPT !["power"].data = p3]
    IN  Returned(out, [gr.m EXCEPT !.rng = Adv(g, drew)], drew,
                 WritesOf(out, {"power"}),
                 [n |-> n, span |-> span, std |-> std, count |-> burst_count, lat |-> <<>>,
                  den |-> TimeDenom(t),
                  stage |-> an.stage])

----------------------------------------------------------------------------
(* ultrasonic.py                                                           *)

\* The event loop of veil_ultrasonic.  Result: [r, pos, stage].
RECURSIVE UsEvents(_, _, _, _, _, _, _)
UsEvents(r, g, pos, left, r_min, r_max, span) ==
    IF left = 0 THEN [r |-> r, pos |-> pos, stage |-> Untouched(Len(r))]
    ELSE
      LET n == Len(r)
          center == IntOf(Raw(g, pos), 5, Max2(6, n - 5))
          span_len == IntOf(Raw(g, pos + 1), 10, 60)
          end == Min2(n, center + span_len)
      IN  IF end <= center
          THEN UsEvents(r, g, pos + 2, left - 1, r_min, r_max, span)
          ELSE
            LET envelope == Bump(Linspace01(end - center))
                event_type == IntOf(Raw(g, pos + 2), 0, 3)
                target == IF event_type = 0 THEN r_max + span \div 10
                          ELSE IF event_type = 1 THEN Max2(r_min - span \div 10, 0)
                          ELSE r_min + (2 * span) \div 10
            IN  CHOOSE w \in {Won(UsEvents(q, g, pos + 3, left - 1, r_min, r_max, span),
                                   center, end, <<r>>, <<q>>) :
                               q \in {BlendWindow(r, center, end, target, envelope)}} : TRUE

veil_ultrasonic(us, S, m, e) ==
    LET missing == MissingKeys({"t", "range"}, us) IN
    IF missing # {} THEN Raised("missing keys", missing, m, 0, NoWrites)
    ELSE
    LET veiled == CopyAll(us)
        t == veiled["t"].data
        r == veiled["range"].data
        n == Len(t)
    IN
    IF n = 0 THEN EmptyReturn(veiled, m, e)
    ELSE
    LET gr == get_rng(m, e) IN
    IF ~gr.ok THEN Raised("seed", {}, gr.m, 0, NoWrites)
    ELSE
    LET g == gr.m.rng
        r_min == SeqMin(r)
        r_max == SeqMax(r)
        span == ChannelSpan(r)
        std == ChannelStd(r)
        tn == TNorm(t)
        \* 1) baseline warping
        ph == [i \in 1..2 |-> PhaseOf(Raw(g, i - 1))]
        cumulative == CumSteps(g, 2, n, 5, S)
        baseline == [j \in 1..n |->
                    LET a0 == Angle(200, S, tn[j], ph[1])
                        a1 == Angle(500, S, tn[j], ph[2])
                    IN  TruncDiv(700 * SinM(a0), 1000)
                        + TruncDiv(500 * CosM(a1), 1000)
                        + cumulative[j]]
        r1 == Arr([j \in 1..n |-> r[j] + TruncDiv(span * baseline[j], 10000)])
        \* 2) dead zones and phantom obstacles
        event_count == CountOf("ultrasonic", S, IntOf(Raw(g, 2 + n), 0, JitterHigh("ultrasonic")))
        ev == UsEvents(r1, g, 3 + n, event_count, r_min, r_max, span)
        \* 3) adaptive jitter / noise
        noise_sigma == (2 * span * S) \div 1000
        env_phase == PhaseOf(Raw(g, ev.pos))
        z == NormalVec(g, ev.pos + 1, n)
        r3 == Arr([j \in 1..n |->
                 LET env == 600 + TruncDiv(400 * SinM((80 * tn[j]) \div 1000 + env_phase), 1000)
                 IN  ev.r[j] + TruncDiv(z[j] * noise_sigma * env, 1000000)])
        \* keep within plausible bounds: a new array
        clipped == Clip(r3, 0, r_max + span \div 2)
        drew == ev.pos + 1 + n
        inplace == [veiled EXCEPT !["range"].data = r3]
        out == [veiled EXCEPT !["range"] =
                   [buf |-> 60 + KeyIdx("range"), dtype |-> "f4", ndim |-> 1,
                    data |-> clipped]]
    IN  Returned(out, [gr.m EXCEPT !.rng = Adv(g, drew)], drew,
                 WritesOf(inplace, {"range"}),
                 [n |-> n, span |-> span, std |-> std, count |-> event_count, lat |-> <<>>,
                  den |-> TimeDenom(t),
                  stage |-> ev.stage])

----------------------------------------------------------------------------
(* magnetometer.py                                                         *)

\* v / max(np.linalg.norm(v), 1e-6) for a 3-vector in 1e-3.
Unit3(v) ==
    LET norm == Max2(ISqrt(v[1] * v[1] + v[2] * v[2] + v[3] * v[3]), 1)
    IN  [k \in 1..3 |-> TruncDiv(v[k] * 1000, norm)]

\* rng.normal(0.0, 1.0, size=3) from position pos, normalised.
Direction(g, pos) == Unit3([k \in 1..3 |-> ZOf(Raw(g, pos + k - 1))])

\* exp(-2 * b) for b in [0, 1], in 1e-3 (rational approximation).
ExpNeg2(b) == 1000000000 \div (1000000 + 2000 * b + 2 * b * b)

\* The anomaly loop of veil_magnetometer.  Result: [mx, my, mz, pos, stage].
RECURSIVE MagAnomalies(_, _, _, _, _, _, _, _)
MagAnomalies(mx, my, mz, g, pos, left, std, S) ==
    IF left = 0
    THEN [mx |-> mx, my |-> my, mz |-> mz, pos |-> pos, stage |-> Untouched(Len(mx))]
    ELSE
      LET n == Len(mx)
          center == IntOf(Raw(g, pos), 5, Max2(6, n - 5))
          span_len == IntOf(Raw(g, pos + 1), 8, 40)
          end == Min2(n, center + span_len)
      IN  IF end <= center
          THEN MagAnomalies(mx, my, mz, g, pos + 2, left - 1, std, S)
          ELSE
            LET base == Linspace01(end - center)
                bump == Bump(base)
                shape_type == IntOf(Raw(g, pos + 2), 0, 3)
                shape == [i \in 1..Len(base) |->
                            IF shape_type = 0 THEN bump[i]
                            ELSE IF shape_type = 1 THEN base[i]
                            ELSE TruncDiv(base[i] * ExpNeg2(base[i]), 1000)]
                direction == Direction(g, pos + 3)
                amp == ((500 + (500 * UnitOf(Raw(g, pos + 6))) \div 1000) * std * S)
                          \div 10000
            IN  CHOOSE w \in
                  {Won(MagAnomalies(q[1], q[2], q[3], g, pos + 7, left - 1, std, S),
                       center, end, <<mx, my, mz>>, q) :
                   q \in {<<AddWindow(mx, center, end, TruncDiv(direction[1] * amp, 1000), shape),
                            AddWindow(my, center, end, TruncDiv(direction[2] * amp, 1000), shape),
                            AddWindow(mz, center, end, TruncDiv(direction[3] * amp, 1000), shape)>>}} :
                  TRUE

veil_magnetometer(mag, S, m, e) ==
    LET missing == MissingKeys({"t", "mx", "my", "mz"}, mag) IN
    IF missing # {} THEN Raised("missing keys", missing, m, 0, NoWrites)
    ELSE
    LET veiled == CopyAll(mag)
        t == veiled["t"].data
        n == Len(t)
    IN
    IF n = 0 THEN EmptyReturn(veiled, m, e)
    ELSE
    LET gr == get_rng(m, e) IN
    IF ~gr.ok THEN Raised("seed", {}, gr.m, 0, NoWrites)
    ELSE
    LET g == gr.m.rng
        mx == veiled["mx"].data
        my == veiled["my"].data
        mz == veiled["mz"].data
        stacked == mx \o my \o mz
        span == ChannelSpan(stacked)
        std == ChannelStd(stacked)
        tn == TNorm(t)
        \* 1) multi-frequency bias drift: phases, then axis weights per frequency
        ph == [i \in 1..3 |-> PhaseOf(Raw(g, i - 1))]
        fm == <<300, 700, 1300>>
        w == [i \in 1..3 |-> Direction(g, 3 + 3 * (i - 1))]
        \* rng.normal(0.0, step_scale, size=(n, 3)), row by row
        steps(c) == Arr([j \in 1..n |->
                       TruncDiv(ZOf(Raw(g, 12 + 3 * (j - 1) + c - 1)) * 10 * S, 10000)])
        cum_x == CumSum(steps(1))
        cum_y == CumSum(steps(2))
        cum_z == CumSum(steps(3))
        ang(i, j) == Angle(fm[i], S, tn[j], ph[i])
        drift_x == [j \in 1..n |->
                      TruncDiv(w[1][1] * SinM(ang(1, j)), 1000)
                      + TruncDiv(w[2][1] * SinM(ang(2, j)), 1000)
                      + TruncDiv(w[3][1] * SinM(ang(3, j)), 1000) + cum_x[j]]
        drift_y == [j \in 1..n |->
                      TruncDiv(w[1][2] * CosM(ang(1, j)), 1000)
                      + TruncDiv(w[2][2] * CosM(ang(2, j)), 1000)
                      + TruncDiv(w[3][2] * CosM(ang(3, j)), 1000) + cum_y[j]]
        drift_z == [j \in 1..n |->
                      TruncDiv(w[1][3] * SinM(ang(1, j) + 80), 1000)
                      + TruncDiv(w[2][3] * SinM(ang(2, j) + 80), 1000)
                      + TruncDiv(w[3][3] * SinM(ang(3, j) + 80), 1000) + cum_z[j]]
        mx1 == Arr([j \in 1..n |-> mx[j] + TruncDiv(5 * span * drift_x[j], 100000)])
        my1 == Arr([j \in 1..n |-> my[j] + TruncDiv(5 * span * drift_y[j], 100000)])
        mz1 == Arr([j \in 1..n |-> mz[j] + TruncDiv(5 * span * drift_z[j], 100000)])
        \* 2) local anomalies
        anomaly_count == CountOf("magnetometer", S, IntOf(Raw(g, 12 + 3 * n), 0, JitterHigh("magnetometer")))
        an == MagAnomalies(mx1, my1, mz1, g, 13 + 3 * n, anomaly_count, std, S)
        \* 3) adaptive high-frequency jitter
        jitter_base == (5 * std * S) \div 1000
        zx == NormalVec(g, an.pos, n)
        zy == NormalVec(g, an.pos + n, n)
        zz == NormalVec(g, an.pos + 2 * n, n)
        mx3 == Arr([j \in 1..n |-> an.mx[j] + TruncDiv(zx[j] * jitter_base, 1000)])
        my3 == Arr([j \in 1..n |-> an.my[j] + TruncDiv(zy[j] * jitter_base * 12, 10000)])
        mz3 == Arr([j \in 1..n |-> an.mz[j] + TruncDiv(zz[j] * jitter_base * 8, 10000)])
        drew == an.pos + 3 * n
        out == [veiled EXCEPT !["mx"].data = mx3, !["my"].data = my3, !["mz"].data = mz3]
    IN  Returned(out, [gr.m EXCEPT !.rng = Adv(g, drew)], drew,
                 WritesOf(out, {"mx", "my", "mz"}),
                 [n |-> n, span |-> span, std |-> std, count |-> anomaly_count, lat |-> <<>>,
                  den |-> TimeDenom(t),
                  stage |-> an.stage])

----------------------------------------------------------------------------
(* imu.py                                                                  *)

\* np.linspace(0.0, stop, n); a single point is 0.0.
Linspace0(stop, n) ==
    Arr([j \in 1..n |-> IF n = 1 THEN 0 ELSE TruncDiv(stop * (j - 1), n - 1)])

\* x[lo:hi] += v (0-based half-open window; empty when hi <= lo)
AddConst(x, lo, hi, v) ==
    Arr([j \in 1..Len(x) |-> IF j > lo /\ j <= hi THEN x[j] + v ELSE x[j]])

\* The six channels of an IMU sample, in the order the spikes are added.
Channels(c) == <<c.gx, c.gy, c.gz, c.ax, c.ay, c.az>>

\* The spike loop of veil_imu over the six channels c.  Result: [c, pos, stage].
RECURSIVE ImuSpikes(_, _, _, _, _)
ImuSpikes(c, g, pos, left, n) ==
    IF left = 0 THEN [c |-> c, pos |-> pos, stage |-> Untouched(n)]
    ELSE
      LET idx == IntOf(Raw(g, pos), 5, Max2(6, n - 5))
          span == IntOf(Raw(g, pos + 1), 3, 10)
          end == Min2(n, idx + span)
          gyro_spike == <<-18000, -12000, 12000, 18000>>[IntOf(Raw(g, pos + 2), 0, 4) + 1]
          accel_spike_x == <<-40000, 40000>>[IntOf(Raw(g, pos + 3), 0, 2) + 1]
          accel_spike_y == <<-30000, 30000>>[IntOf(Raw(g, pos + 4), 0, 2) + 1]
          accel_spike_z == <<-60000, 60000>>[IntOf(Raw(g, pos + 5), 0, 2) + 1]
          c2 == [gx |-> AddConst(c.gx, idx, end, gyro_spike),
                 gy |-> AddConst(c.gy, idx, end, TruncDiv(gyro_spike * 7, 10)),
                 gz |-> c.gz,
                 ax |-> AddConst(c.ax, idx, end, accel_spike_x),
                 ay |-> AddConst(c.ay, idx, end, accel_spike_y),
                 az |-> AddConst(c.az, idx, end, accel_spike_z)]
      IN  CHOOSE w \in {IF end <= idx THEN ImuSpikes(q, g, pos + 6, left - 1, n)
                         ELSE Won(ImuSpikes(q, g, pos + 6, left - 1, n),
                                  idx, end, Channels(c), Channels(q)) : q \in {c2}} : TRUE

\* np.random.default_rng() inside veil_imu: a generator of its own seeded
\* from fresh entropy, so `entropy` is any generator state.
ImuRng(m, entropy) == entropy

veil_imu(imu, S, m, entropy) ==
    LET missing == MissingKeys({"t", "gx", "gy", "gz", "ax", "ay", "az"}, imu) IN
    IF missing # {} THEN Raised("missing keys", missing, m, 0, NoWrites)
    ELSE
    LET veiled == CopyAll(imu)
        n == Len(veiled["t"].data)
    IN
    IF n = 0 THEN Returned(veiled, m, 0, NoWrites, NoInfo)
    ELSE
    LET g == ImuRng(m, entropy)
        \* 1) slow drift on some channels
        drift_gz == Linspace0(300 * S, n)
        drift_ax == Linspace0(1000 * S, n)
        drift_ay == Linspace0(-700 * S, n)
        c1 == [gx |-> veiled["gx"].data,
               gy |-> veiled["gy"].data,
               gz |-> Arr([j \in 1..n |-> veiled["gz"].data[j] + drift_gz[j]]),
               ax |-> Arr([j \in 1..n |-> veiled["ax"].data[j] + drift_ax[j]]),
               ay |-> Arr([j \in 1..n |-> veiled["ay"].data[j] + drift_ay[j]]),
               az |-> veiled["az"].data]
        \* 2) fake impact spikes
        spike_count == CountOf("imu", S, 0)
        sp == ImuSpikes(c1, g, 0, spike_count, n)
        \* 3) high-frequency jitter: gx, gy, gz, then ax, ay, az
        noise(x, pos, sm) ==
            Arr([j \in 1..n |-> x[j] + TruncDiv(ZOf(Raw(g, pos + j - 1)) * sm * S, 1000)])
        out == [veiled EXCEPT
                  !["gx"].data = noise(sp.c.gx, sp.pos, 50),
                  !["gy"].data = noise(sp.c.gy, sp.pos + n, 50),
                  !["gz"].data = noise(sp.c.gz, sp.pos + 2 * n, 50),
                  !["ax"].data = noise(sp.c.ax, sp.pos + 3 * n, 200),
                  !["ay"].data = noise(sp.c.ay, sp.pos + 4 * n, 200),
                  !["az"].data = noise(sp.c.az, sp.pos + 5 * n, 200)]
    IN  Returned(out, m, 0,
                 WritesOf(out, {"gx", "gy", "gz", "ax", "ay", "az"}),
                 [n |-> n, span |-> 0, std |-> 0, count |-> spike_count, lat |-> <<>>,
                  den |-> 0,
                  stage |-> sp.stage])

----------------------------------------------------------------------------
(* fusion.py                                                               *)

\* The names of a mapping in iteration order.
RECURSIVE InOrder(_, _)
InOrder(names, i) ==
    IF i > Len(AllKeys) THEN <<>>
    ELSE (IF AllKeys[i] \in names THEN <<AllKeys[i]>> ELSE <<>>) \o InOrder(names, i + 1)

\* np.convolve(a, np.ones(K) / K, mode="same"): the centred part, of length
\* max(len(a), K), of the full convolution.
ConvolveSame(a, K) ==
    LET n == Len(a)
        L == Max2(n, K)
        start == (Min2(n, K) - 1) - (Min2(n, K) \div 2)
        \* full[m], m = 0 .. n+K-2
        full(mm) == SumSeq([k \in 1..n |->
                        IF (k - 1) <= mm /\ (k - 1) >= mm - K + 1 THEN a[k] ELSE 0])
    IN  Arr([i \in 1..L |-> TruncDiv(full(start + i - 1), K)])

\* The length x + y has under numpy broadcasting of 1-D operands, -1 when
\* the operands cannot be broadcast together (ValueError).
BroadcastLen(lx, ly) ==
    IF lx = ly THEN lx ELSE IF lx = 1 THEN ly ELSE IF ly = 1 THEN lx ELSE -1

\* Element j of x as an operand broadcast to a longer length.
Elem(x, j) == IF Len(x) = 1 THEN x[1] ELSE x[j]

\* arr[:n]
Prefix(x, n) == SubSeq(x, 1, Min2(n, Len(x)))

\* A faulty check: only the first stream is examined.
NotOneDFirstOnly(conv, names) == {i \in {1} : conv[names[i]].ndim # 1}

\* The positions, in iteration order, of the streams with a.ndim != 1.
NotOneD(conv, names) == {i \in 1..Len(names) : conv[names[i]].ndim # 1}

\* The three latent processes of one call, drawn from generator g: the
\* random walk (n draws), the two-term sinusoid (2 draws) and the smoothed
\* noise (n draws).
FusionLatents(g, n, S) ==
    LET t == Linspace01(n)
        phase1 == PhaseOf(Raw(g, n))
        phase2 == PhaseOf(Raw(g, n + 1))
    IN  [l1 |-> CumSteps(g, 0, n, 50, S),
         l2 |-> Arr([j \in 1..n |->
                  TruncDiv(700 * SinM(Angle(300, S, t[j], phase1)), 1000)
                  + TruncDiv(500 * CosM(Angle(800, S, t[j], phase2)), 1000)]),
         l3 |-> ConvolveSame(NormalVec(g, n + 2, n), 5)]

\* A faulty loop: the latent processes are drawn anew for every stream.
LatentsRedrawn(g, n, S, i) == FusionLatents(Adv(g, i - 1), n, S)

\* The latent processes stream i (in iteration order) is mixed from: those
\* built once before the loop over the streams.
LatentsFor(g, n, S, i) == FusionLatents(g, n, S)

\* The position in the call's draws of the weight vector of stream i.
WeightPos(n, i) == 2 * n + 2 + 3 * (i - 1)

\* distorted = base + scale * (w[0]*latent1 + w[1]*latent2 + w[2]*latent3),
\* scale = (0.2 * span + 0.8 * std) * strength, of length lenOut.
FusionMix(base, lt, w, S, lenOut) ==
    LET span == ChannelSpan(base)
        std == ChannelStd(base)
        scale == ((2 * span + 8 * std) * S) \div 100
    IN  Arr([j \in 1..lenOut |->
               Elem(base, j)
               + TruncDiv(scale *
                     TruncDiv(w[1] * Elem(lt.l1, j) + w[2] * Elem(lt.l2, j)
                              + w[3] * Elem(lt.l3, j), 1000), 1000)])

veil_fusion_timeseries(sensors, S, m, e) ==
    IF DOMAIN sensors = {} THEN Raised("empty", {}, m, 0, NoWrites)
    ELSE
    LET names == InOrder(DOMAIN sensors, 1)
        conv == [name \in DOMAIN sensors |-> AsArrayF32(sensors[name], name)]
        bad == NotOneD(conv, names)
    IN
    IF bad # {}
    THEN Raised("not 1D", {names[CHOOSE i \in bad : \A j \in bad : i <= j]}, m, 0, NoWrites)
    ELSE
    LET n == CHOOSE l \in {Len(conv[k].data) : k \in DOMAIN sensors} :
                \A k \in DOMAIN sensors : l <= Len(conv[k].data)
    IN
    IF n = 0
    THEN Returned([name \in DOMAIN sensors |->
                      [Copy(conv[name], name) EXCEPT !.data = <<>>]],
                  m, 0, NoWrites, NoInfo)
    ELSE
    LET \* truncate all to the shortest length (views)
        arrays == [name \in DOMAIN sensors |->
                      [conv[name] EXCEPT !.data = Prefix(conv[name].data, n)]]
        gr == get_rng(m, e)
    IN
    IF ~gr.ok THEN Raised("seed", {}, gr.m, 0, NoWrites)
    ELSE
    LET g == gr.m.rng
        \* the latent processes as the first stream finds them
        first == LatentsFor(g, n, S, 1)
        len12 == BroadcastLen(Len(first.l1), Len(first.l2))
        lenLatent == IF len12 = -1 THEN -1 ELSE BroadcastLen(len12, Len(first.l3))
        lenOut == IF lenLatent = -1 THEN -1 ELSE BroadcastLen(n, lenLatent)
        lat == <<Len(first.l1), Len(first.l2), Len(first.l3)>>
        \* the first stream draws its weights, then the mixture is formed
        drewFirst == WeightPos(n, 1) + 3
    IN
    IF lenOut = -1
    THEN [Raised("broadcast", {}, [gr.m EXCEPT !.rng = Adv(g, drewFirst)],
                 drewFirst, NoWrites)
          EXCEPT !.info = [n |-> n, span |-> 0, std |-> 0, count |-> 0, lat |-> lat,
                  stage |-> NoStage, den |-> 0]]
    ELSE
    LET veiled ==
          [name \in DOMAIN sensors |->
             LET i == CHOOSE i \in 1..Len(names) : names[i] = name
                 base == Copy(arrays[name], name).data
                 w == Direction(g, WeightPos(n, i))
                 distorted == FusionMix(base, LatentsFor(g, n, S, i), w, S, lenOut)
             IN  [buf |-> 60 + KeyIdx(name), dtype |-> "f4", ndim |-> 1,
                  data |-> distorted]]
        drew == WeightPos(n, Len(names)) + 3
    IN  Returned(veiled, [gr.m EXCEPT !.rng = Adv(g, drew)], drew, NoWrites,
                 [n |-> n,
                  span |-> SeqMin([i \in 1..Len(names) |->
                                     ChannelSpan(Copy(arrays[names[i]], names[i]).data)]),
                  std |-> SeqMin([i \in 1..Len(names) |->
                                    ChannelStd(Copy(arrays[names[i]], names[i]).data)]),
                  count |-> 0, lat |-> lat,
                  stage |-> NoStage, den |-> 0])

----------------------------------------------------------------------------
(* The callers: the samples, strengths and seeds they pass                 *)

\* strength, in tenths: 0, 0.2, 1.0
Strengths == {0, 2, 10}

\* explicit seeds passed to set_seed
Seeds == {7}

DTypes == {"f4", "f8"}

\* How the timestamps and the channel values of a sample run.
Plain == [t |-> "inc", x |-> "varied"]
Patterns == {Plain, [t |-> "const", x |-> "const"],
             [t |-> "dec", x |-> "neg"], [t |-> "inc", x |-> "mixed"]}

TVal(tp, i, n) ==
    IF tp = "inc" THEN (i - 1) * 1001
    ELSE IF tp = "const" THEN 5001
    ELSE n - i

XVal(xp, k, i) ==
    IF xp = "varied" THEN 20001 + 301 * ((i * i) % 5) + 2 * KeyIdx(k)
    ELSE IF xp = "const" THEN 20001 + 2 * KeyIdx(k)
    ELSE IF xp = "neg" THEN -30001 - 301 * ((i * i) % 5)
    ELSE 301 * ((i * i) % 5) - 601

\* A caller's array: float32 arrays hold float32 values.
MkArray(k, n, pat, dt) ==
    [buf |-> KeyIdx(k), dtype |-> dt, ndim |-> 1,
     data |-> [i \in 1..n |->
                 LET v == IF k = "t" THEN TVal(pat.t, i, n)
                          ELSE IF k = "aux" THEN XVal("varied", k, i)
                          ELSE XVal(pat.x, k, i)
                 IN  IF dt = "f4" THEN F32(v) ELSE v]]

MkSample(keys, n, pat, dt) == [k \in keys |-> MkArray(k, n, pat, dt)]

\* The samples passed to the operation whose required channels are req:
\* complete ones of every length (float64 in every pattern, float32, and
\* with an extra channel), and incomplete ones: the empty sample and those
\* that lack up to MaxMissing required channels.
SamplesFor(req) ==
    {MkSample(req, n, pat, "f8") : n \in 0..MaxN, pat \in Patterns}
    \cup {MkSample(req, n, Plain, "f4") : n \in 0..MaxN}
    \cup {MkSample(req \cup {"aux"}, n, Plain, dt) : n \in {0, 1, MaxN}, dt \in DTypes}
    \cup {MkSample(keys \ lack, 1, Plain, "f8") :
            keys \in {req, req \cup {"aux"}},
            lack \in {d \in SUBSET req : d # {} /\ Cardinality(d) <= MaxMissing}}
    \cup {NoOut}

\* The stream mappings passed to the fusion engine: the empty mapping, one
\* stream, two streams of equal or different lengths, and mappings in which
\* the first, the second or both streams are 2-D.
FusionInputs ==
    {NoOut}
    \cup {[k \in {"pressure"} |-> MkArray(k, n, pat, dt)] :
            n \in 0..MaxN, pat \in {Plain, [t |-> "const", x |-> "const"]}, dt \in DTypes}
    \cup {[k \in {"pressure", "power"} |->
             MkArray(k, IF k = "pressure" THEN n ELSE n2, Plain, dt)] :
            n \in 0..MaxN, n2 \in {0, 3, MaxN}, dt \in DTypes}
    \cup {[k \in {"pressure", "power"} |->
             [MkArray(k, 3, Plain, "f8") EXCEPT !.ndim = IF k \in two THEN 2 ELSE 1]] :
            two \in (SUBSET {"pressure", "power"}) \ {{}}}

----------------------------------------------------------------------------
(* lidar.py                                                                *)
(* A 2-D array holds its rows one after the other in data (cols values a   *)
(* row); its shape is (Len(data) / cols, cols).  Angles are in 1e-3 turns. *)

\* np.arctan2(y, x), linear within each octant.
ArcTan2(y, x) ==
    LET ax == Abs(x)
        ay == Abs(y)
        first == IF ax = 0 /\ ay = 0 THEN 0
                 ELSE IF ax >= ay THEN (125 * ay) \div ax
                 ELSE 250 - (125 * ax) \div ay
    IN  IF y >= 0 THEN (IF x >= 0 THEN first ELSE 500 - first)
        ELSE (IF x >= 0 THEN -first ELSE first - 500)

\* A loop of _veil_lidar_ranges: `left` times, r[idx:end] = value with
\* idx = rng.integers(0, n) and end = min(n, idx + rng.integers(lo, hi)).
RECURSIVE RangeWedges(_, _, _, _, _, _, _)
RangeWedges(r, g, pos, left, lo, hi, value) ==
    IF left = 0 THEN r
    ELSE
      LET n == Len(r)
          idx == IntOf(Raw(g, pos), 0, n)
          span_len == IntOf(Raw(g, pos + 1), lo, hi)
          end == Min2(n, idx + span_len)
      IN  RangeWedges(Arr([j \in 1..n |-> IF j > idx /\ j <= end THEN value ELSE r[j]]),
                      g, pos + 2, left - 1, lo, hi, value)

\* _veil_lidar_ranges(ranges, strength, rng): [data, drew]
_veil_lidar_ranges(ranges, S, g) ==
    LET n == Len(ranges) IN
    IF n = 0 THEN [data |-> ranges, drew |-> 0]
    ELSE
    LET r_min == SeqMin(ranges)
        r_max == SeqMax(ranges)
        span == Max2(r_max - r_min, 10)
        ghost_count == TruncDiv(6 * S, 10)
        ghosts == RangeWedges(ranges, g, 0, ghost_count,
                              2, Max2(3, TruncDiv(8 * S, 10)), r_min + (5 * span) \div 100)
        erase_count == TruncDiv(4 * S, 10)
        erased == RangeWedges(ghosts, g, 2 * ghost_count, erase_count,
                              4, Max2(5, TruncDiv(10 * S, 10)), r_max)
        pos == 2 * ghost_count + 2 * erase_count
        jitter == [j \in 1..n |->
                     TruncDiv(ZOf(Raw(g, pos + j - 1)) * ((3 * span * S) \div 1000), 1000)]
    IN  [data |-> Clip([j \in 1..n |-> erased[j] + jitter[j]], r_min, r_max),
         drew |-> pos + n]

\* The ghost loop of _veil_lidar_points: `left` swarms are stacked under
\* pts (a sequence of rows).  Result: [pts, pos].
RECURSIVE GhostSwarms(_, _, _, _, _, _, _)
GhostSwarms(pts, n, g, pos, left, span, S) ==
    IF left = 0 THEN [pts |-> pts, pos |-> pos]
    ELSE
      LET idx == IntOf(Raw(g, pos), 0, n)
          center == pts[idx + 1]
          swarm_size == IntOf(Raw(g, pos + 1), 10, 30)
          offset(i, c) ==
              TruncDiv(ZOf(Raw(g, pos + 2 + 3 * (i - 1) + (c - 1))) * ((5 * span * S) \div 1000),
                       1000)
          scale_factor == 600 + (800 * UnitOf(Raw(g, pos + 2 + 3 * swarm_size))) \div 1000
          ghost_swarm ==
              [i \in 1..swarm_size |->
                 <<TruncDiv((center[1] + offset(i, 1)) * scale_factor, 1000),
                   TruncDiv((center[2] + offset(i, 2)) * scale_factor, 1000),
                   center[3] + offset(i, 3)>>]
      IN  GhostSwarms(pts \o ghost_swarm, n, g, pos + 3 + 3 * swarm_size,
                      left - 1, span, S)

\* The sector loop of _veil_lidar_points: the mask after `left` sectors.
RECURSIVE SectorMask(_, _, _, _, _, _)
SectorMask(mask, angles, g, pos, left, S) ==
    IF left = 0 THEN mask
    ELSE
      LET center_angle == UnitOf(Raw(g, pos)) - 500
          width == ((100 + (300 * UnitOf(Raw(g, pos + 1))) \div 1000) * S * 100) \div 62832
          away(a) == Abs(((a - center_angle + 499 + 2000) % 1000) - 499)
          drop_mask == [j \in 1..Len(angles) |->
                          away(angles[j]) < width /\ UnitOf(Raw(g, pos + 1 + j)) < 500]
      IN  SectorMask([j \in 1..Len(angles) |-> mask[j] /\ ~drop_mask[j]],
                     angles, g, pos + 2 + Len(angles), left - 1, S)

\* _veil_lidar_points(points, strength, rng) on the rows pts: [data, drew]
_veil_lidar_points(pts, S, g) ==
    LET n == Len(pts) IN
    IF n = 0 THEN [data |-> <<>>, drew |-> 0]
    ELSE
    LET d == [j \in 1..n |-> ISqrt(pts[j][1] * pts[j][1] + pts[j][2] * pts[j][2])]
        span == Max2(SeqMax(d) - SeqMin(d), 10)
        gh == GhostSwarms(pts, n, g, 0, TruncDiv(5 * S, 10), span, S)
        all == Arr(gh.pts)
        angles == Arr([j \in 1..Len(all) |-> ArcTan2(all[j][2], all[j][1])])
        sector_count == TruncDiv(3 * S, 10)
        mask == SectorMask([j \in 1..Len(all) |-> TRUE], angles, g, gh.pos,
                           sector_count, S)
        kept == SelectSeq([j \in 1..Len(all) |-> [row |-> all[j], keep |-> mask[j]]],
                          LAMBDA e : e.keep)
        pos == gh.pos + sector_count * (2 + Len(all))
        jit(k) == TruncDiv(ZOf(Raw(g, pos + k - 1)) * ((2 * span * S) \div 1000), 1000)
    IN  [data |-> Arr([k \in 1..(3 * Len(kept)) |->
                         kept[((k - 1) \div 3) + 1].row[((k - 1) % 3) + 1] + jit(k)]),
         drew |-> pos + 3 * Len(kept)]

\* veil_lidar(lidar_data, strength) on the one-entry mapping lidar |-> array.
veil_lidar(sample, S, m, e) ==
    LET arr == sample["lidar"]
        values == [j \in 1..Len(arr.data) |-> F32(arr.data[j])]
        gr == get_rng(m, e)
    IN  IF ~gr.ok THEN Raised("seed", {}, gr.m, 0, NoWrites)
        ELSE IF ~(arr.ndim = 1 \/ (arr.ndim = 2 /\ arr.cols = 3))
        THEN Raised("shape", {}, gr.m, 0, NoWrites)
        ELSE
          LET r == IF arr.ndim = 1 THEN _veil_lidar_ranges(Arr(values), S, gr.m.rng)
                   ELSE _veil_lidar_points(
                           [j \in 1..(Len(values) \div 3) |->
                               <<values[3 * j - 2], values[3 * j - 1], values[3 * j]>>],
                           S, gr.m.rng)
          IN  Returned([k \in {"lidar"} |->
                           [buf |-> 91, dtype |-> "f4", ndim |-> arr.ndim,
                            data |-> r.data, cols |-> arr.cols]],
                       [gr.m EXCEPT !.rng = Adv(gr.m.rng, r.drew)], r.drew,
                       NoWrites, NoInfo)

----------------------------------------------------------------------------
(* State                                                                   *)

VARIABLES
    M,      \* the random_control module: [rng, py, np]
    env,    \* the DATA_VEIL_SEED environment variable
    call,   \* the call last made: [op, sample, S, m], the sample as it was
            \* passed and the module as it was when the call was made
    inp,    \* the caller's sample as it is now
    ret,    \* what the call did (a Returned or Raised record without m)
    det,    \* the repeated-run experiment (used by SpecDet only)
    cmp,    \* the two-strength comparison of counts (used by SpecCount only)
    prof,   \* the profiles module and its configuration (SpecProf only)
    reg     \* the plugins module (SpecPlug only)

vars == <<M, env, call, inp, ret, det, cmp, conc, prof, reg>>

\* The variables of the experiments, which the program's actions leave alone.
harness == <<det, cmp, conc, prof, reg>>

NoM == [rng |-> None, py |-> None, np |-> None]
NoCall == [op |-> "none", sample |-> NoOut, S |-> 0, m |-> NoM]
NoRun == [status |-> "none", why |-> "", out |-> NoOut]
NoCmp == [pc |-> "off", op |-> "none", s1 |-> 0, s2 |-> 0, j |-> 0,
          c1 |-> 0, c2 |-> 0]
NoThread == [pc |-> "off", op |-> "none", rng |-> 0, got |-> <<>>, ret |-> NoRun]
NoConc == [pc |-> "off", sync |-> FALSE, lock |-> 0, m0 |-> NoM, S |-> 0,
           heap |-> <<>>, cur |-> 0, last |-> 0, sw |-> 0,
           th |-> <<NoThread, NoThread>>]
NoProf == [pc |-> "off"]
NoReg == [pc |-> "off"]
NoDet == [pc |-> "off", op |-> "none", sample |-> NoOut, S |-> 0, seed |-> 0,
          out1 |-> NoRun, out2 |-> NoRun]
Idle == [status |-> "idle", exc |-> "", why |-> "", named |-> {},
         out |-> NoOut, value |-> None, drew |-> 0, info |-> NoInfo]

Init ==
    /\ M = NoM
    /\ env \in VeilEnvs
    /\ call = NoCall
    /\ inp = NoOut
    /\ ret = Idle
    /\ det = NoDet
    /\ cmp = NoCmp
    /\ conc = NoConc
    /\ prof = NoProf
    /\ reg = NoReg

\* The caller's sample after a call with in-place writes w.
AfterWrites(sample, w) ==
    [k \in DOMAIN sample |->
        IF sample[k].buf \in DOMAIN w
        THEN [sample[k] EXCEPT !.data = w[sample[k].buf]]
        ELSE sample[k]]

\* The state after operation op was called on sample with strength S and did r.
Outcome(op, sample, S, r) ==
    /\ M' = r.m
    /\ call' = [op |-> op, sample |-> sample, S |-> S, m |-> M]
    /\ inp' = AfterWrites(sample, r.written)
    /\ ret' = [status |-> r.status, exc |-> r.exc, why |-> r.why,
               named |-> r.named, out |-> r.out, value |-> None, drew |-> r.drew,
               info |-> r.info]
    /\ UNCHANGED <<env, harness>>

VeilBarometer ==
    /\ ret.status = "idle"
    /\ \E sample \in SamplesFor({"t", "pressure"}), S \in Strengths :
          Outcome("barometer", sample, S, veil_barometer(sample, S, M, env))

VeilMagnetometer ==
    /\ ret.status = "idle"
    /\ \E sample \in SamplesFor({"t", "mx", "my", "mz"}), S \in Strengths :
          Outcome("magnetometer", sample, S, veil_magnetometer(sample, S, M, env))

VeilRf ==
    /\ ret.status = "idle"
    /\ \E sample \in SamplesFor({"t", "power"}), S \in Strengths :
          Outcome("rf", sample, S, veil_rf(sample, S, M, env))

VeilUltrasonic ==
    /\ ret.status = "idle"
    /\ \E sample \in SamplesFor({"t", "range"}), S \in Strengths :
          Outcome("ultrasonic", sample, S, veil_ultrasonic(sample, S, M, env))

VeilImu ==
    /\ ret.status = "idle"
    /\ \E sample \in SamplesFor({"t", "gx", "gy", "gz", "ax", "ay", "az"}),
          S \in Strengths, entropy \in 0..(RngMod - 1) :
          Outcome("imu", sample, S, veil_imu(sample, S, M, entropy))

VeilFusion ==
    /\ ret.status = "idle"
    /\ \E sensors \in FusionInputs, S \in Strengths :
          Outcome("fusion", sensors, S, veil_fusion_timeseries(sensors, S, M, env))

\* set_seed(v) and set_seed() called directly.
SetSeedOf(v) ==
    /\ ret.status = "idle"
    /\ LET r == set_seed(M, env, v)
       IN  /\ M' = r.m
           /\ call' = [op |-> "set_seed", sample |-> NoOut, S |-> v, m |-> M]
           /\ ret' = [Idle EXCEPT !.status = IF r.ok THEN "return" ELSE "raise",
                                  !.exc = IF r.ok THEN "" ELSE "ValueError",
                                  !.why = IF r.ok THEN "" ELSE "seed",
                                  !.value = r.seed]
    /\ UNCHANGED <<env, inp, harness>>

SetSeed == \E v \in Seeds \cup {None} : SetSeedOf(v)

\* reseed(): set_seed(None), returning nothing.
Reseed ==
    /\ ret.status = "idle"
    /\ LET r == set_seed(M, env, None)
       IN  /\ M' = r.m
           /\ call' = [op |-> "reseed", sample |-> NoOut, S |-> None, m |-> M]
           /\ ret' = [Idle EXCEPT !.status = IF r.ok THEN "return" ELSE "raise",
                                  !.exc = IF r.ok THEN "" ELSE "ValueError",
                                  !.why = IF r.ok THEN "" ELSE "seed"]
    /\ UNCHANGED <<env, inp, harness>>

\* The arrays passed to veil_lidar: n ranges, n points, or n rows of two
\* columns, for n up to MaxPts.
LidarInputs ==
    {[k \in {"lidar"} |->
        [buf |-> 90, dtype |-> "f8", ndim |-> IF cols = 1 THEN 1 ELSE 2, cols |-> cols,
         data |-> [j \in 1..(n * cols) |-> XVal("varied", "power", j) * (IF j % 2 = 0 THEN -1 ELSE 1)]]] :
       n \in 0..MaxPts, cols \in 1..3}

VeilLidar ==
    /\ ret.status = "idle"
    /\ \E sample \in LidarInputs, S \in Strengths :
          Outcome("lidar", sample, S, veil_lidar(sample, S, M, env))

\* get_rng() called by the user: ret.value is the generator returned.
GetRng ==
    /\ ret.status = "idle"
    /\ LET r == get_rng(M, env)
       IN  /\ M' = r.m
           /\ call' = [op |-> "get_rng", sample |-> NoOut, S |-> None, m |-> M]
           /\ ret' = [Idle EXCEPT !.status = IF r.ok THEN "return" ELSE "raise",
                                  !.exc = IF r.ok THEN "" ELSE "ValueError",
                                  !.why = IF r.ok THEN "" ELSE "seed",
                                  !.value = IF r.ok THEN r.m.rng ELSE None]
    /\ UNCHANGED <<env, inp, harness>>

\* The caller writes into the first element of every returned sequence;
\* the write reaches every array that shares the storage.
Bumped(a, bufs) ==
    IF a.buf \in bufs /\ Len(a.data) > 0
    THEN [a EXCEPT !.data = [a.data EXCEPT ![1] = a.data[1] + 2]]
    ELSE a

WriteOutput ==
    /\ ret.status = "return"
    /\ \E k \in DOMAIN ret.out : Len(ret.out[k].data) > 0
    /\ LET bufs == {ret.out[k].buf : k \in DOMAIN ret.out}
       IN  /\ ret' = [ret EXCEPT !.status = "written",
                                 !.out = [k \in DOMAIN ret.out |-> Bumped(ret.out[k], bufs)]]
           /\ inp' = [k \in DOMAIN inp |-> Bumped(inp[k], bufs)]
    /\ UNCHANGED <<M, env, call, harness>>

\* The caller drops the result of the last call.
Release ==
    /\ ret.status # "idle"
    /\ call' = NoCall
    /\ inp' = NoOut
    /\ ret' = Idle
    /\ UNCHANGED <<M, env, harness>>

Next ==
    \/ VeilBarometer
    \/ VeilMagnetometer
    \/ VeilRf
    \/ VeilUltrasonic
    \/ VeilImu
    \/ VeilFusion
    \/ VeilLidar
    \/ SetSeed
    \/ Reseed
    \/ GetRng
    \/ WriteOutput
    \/ Release

Spec == Init /\ [][Next]_vars

----------------------------------------------------------------------------
(* Repeated runs: a caller applies set_seed(s), makes a call, later applies *)
(* set_seed(s) again and makes the identical call.                          *)

AllOps == {"barometer", "magnetometer", "rf", "ultrasonic", "imu", "fusion"}

Required(op) ==
    CASE op = "barometer"    -> {"t", "pressure"}
      [] op = "magnetometer" -> {"t", "mx", "my", "mz"}
      [] op = "rf"           -> {"t", "power"}
      [] op = "ultrasonic"   -> {"t", "range"}
      [] op = "imu"          -> {"t", "gx", "gy", "gz", "ax", "ay", "az"}
      [] OTHER               -> {}

\* The inputs of the repeated calls: complete float64 samples of every length.
InputsOf(op) ==
    IF op = "fusion"
    THEN {[k \in {"pressure", "power"} |-> MkArray(k, n, Plain, "f8")] : n \in 0..MaxN}
    ELSE {MkSample(Required(op), n, Plain, "f8") : n \in 0..MaxN}

\* The call op(sample, strength=S); entropy is what the operating system
\* hands to a generator constructed without a seed.
RunOp(op, sample, S, m, e, entropy) ==
    CASE op = "barometer"    -> veil_barometer(sample, S, m, e)
      [] op = "magnetometer" -> veil_magnetometer(sample, S, m, e)
      [] op = "rf"           -> veil_rf(sample, S, m, e)
      [] op = "ultrasonic"   -> veil_ultrasonic(sample, S, m, e)
      [] op = "imu"          -> veil_imu(sample, S, m, entropy)
      [] OTHER               -> veil_fusion_timeseries(sample, S, m, e)

InitDet ==
    /\ M = NoM
    /\ env \in VeilEnvs
    /\ call = NoCall
    /\ inp = NoOut
    /\ ret = Idle
    /\ \E op \in AllOps, S \in Strengths, seed \in Seeds :
         \E sample \in InputsOf(op) :
            det = [NoDet EXCEPT !.pc = "start", !.op = op, !.sample = sample,
                                !.S = S, !.seed = seed]
    /\ cmp = NoCmp
    /\ conc = NoConc
    /\ prof = NoProf
    /\ reg = NoReg

\* set_seed(s) before the first and before the second run.
DetSetSeed ==
    /\ det.pc \in {"start", "ran1"}
    /\ LET r == set_seed(M, env, det.seed)
       IN  /\ r.ok
           /\ M' = r.m
    /\ det' = [det EXCEPT !.pc = IF det.pc = "start" THEN "seeded1" ELSE "seeded2"]
    /\ UNCHANGED <<env, call, inp, ret, cmp, conc, prof, reg>>

\* The state after a run of the repeated call did r.
DetOutcome(r) ==
    /\ M' = r.m
    /\ det' = [det EXCEPT
                 !.pc = IF det.pc = "seeded1" THEN "ran1" ELSE "done",
                 !.out1 = IF det.pc = "seeded1"
                          THEN [status |-> r.status, why |-> r.why, out |-> r.out]
                          ELSE @,
                 !.out2 = IF det.pc = "seeded1"
                          THEN @
                          ELSE [status |-> r.status, why |-> r.why, out |-> r.out]]
    /\ UNCHANGED <<env, call, inp, ret, cmp, conc, prof, reg>>

\* The call, made immediately after set_seed(s).
DetRun ==
    /\ det.pc \in {"seeded1", "seeded2"}
    /\ \E entropy \in 0..(RngMod - 1) :
          DetOutcome(RunOp(det.op, det.sample, det.S, M, env, entropy))

\* Between the runs the caller draws from get_rng() for its own purposes.
DetDraw ==
    /\ det.pc \in {"start", "ran1"}
    /\ LET gr == get_rng(M, env)
       IN  /\ gr.ok
           /\ M' = [gr.m EXCEPT !.rng = Adv(gr.m.rng, 1)]
    /\ UNCHANGED <<env, call, inp, ret, det, cmp, conc, prof, reg>>

NextDet ==
    \/ DetSetSeed
    \/ DetRun
    \/ DetDraw

SpecDet == InitDet /\ [][NextDet]_vars

----------------------------------------------------------------------------
(* Counts at two strengths: the anomaly count of one operation is computed *)
(* for the same jitter draw j at strengths s1 <= s2.                       *)

\* Largest strength compared, in tenths.
MaxStrength == 25

InitCount ==
    /\ M = NoM
    /\ env = "unset"
    /\ call = NoCall
    /\ inp = NoOut
    /\ ret = Idle
    /\ det = NoDet
    /\ conc = NoConc
    /\ prof = NoProf
    /\ reg = NoReg
    /\ \E op \in AllOps \ {"fusion"}, s1 \in 0..MaxStrength :
         \E s2 \in s1..MaxStrength, j \in 0..(JitterHigh(op) - 1) :
            cmp = [NoCmp EXCEPT !.pc = "start", !.op = op, !.s1 = s1,
                                !.s2 = s2, !.j = j]

CountLow ==
    /\ cmp.pc = "start"
    /\ cmp' = [cmp EXCEPT !.pc = "low", !.c1 = CountOf(cmp.op, cmp.s1, cmp.j)]
    /\ UNCHANGED <<M, env, call, inp, ret, det, conc, prof, reg>>

CountHigh ==
    /\ cmp.pc = "low"
    /\ cmp' = [cmp EXCEPT !.pc = "done", !.c2 = CountOf(cmp.op, cmp.s2, cmp.j)]
    /\ UNCHANGED <<M, env, call, inp, ret, det, conc, prof, reg>>

NextCount ==
    \/ CountLow
    \/ CountHigh

SpecCount == InitCount /\ [][NextCount]_vars

----------------------------------------------------------------------------
(* Seeding, under every kind of DATA_VEIL_SEED and with seeds numpy        *)
(* refuses; a veil operation in between advances the generator.            *)

InitSeed ==
    /\ M = NoM
    /\ env \in {"unset", "7", "x"}
    /\ call = NoCall
    /\ inp = NoOut
    /\ ret = Idle
    /\ det = NoDet
    /\ cmp = NoCmp
    /\ conc = NoConc
    /\ prof = NoProf
    /\ reg = NoReg

\* set_seed(v) for any integer v or None.
SetSeedAny == \E v \in {-1, 7, None} : SetSeedOf(v)

NextSeed ==
    \/ SetSeedAny
    \/ Reseed
    \/ GetRng
    \/ VeilUltrasonic
    \/ Release

SpecSeed == InitSeed /\ [][NextSeed]_vars

----------------------------------------------------------------------------
(* Two threads, each making one veil call on the shared generator.  _RNG   *)
(* is a reference: conc.heap holds the state of every generator instance   *)
(* created, conc.cur is the instance _RNG refers to (0 for None) and       *)
(* th[i].rng the instance get_rng returned to thread i.  With conc.sync    *)
(* the caller wraps each call in a critical section (conc.lock).  A thread *)
(* is preempted in the middle of its call at most MaxSwitch times.         *)

MaxSwitch == 2

\* The operations whose generator calls are scalar draws or draws of
\* size n or size len(freqs).
ConcOps == {"barometer", "rf", "ultrasonic"}

\* The strengths of the concurrent calls: a partial strength.
ConcStrengths == {2}

\* The calls are made on complete samples of two readings.
ConcSample(op) == MkSample(Required(op), 2, Plain, "f8")

\* len(freqs): the number of phases drawn by the first generator call.
PhaseCount(op) == IF op = "ultrasonic" THEN 2 ELSE 3

\* The number of values the generator call at draw position k takes (a
\* generator call holds the generator's lock: its values are consecutive)
\* in a call on n readings that draws `drew` values in all: the phases,
\* the n random-walk steps, scalars (on so few readings every anomaly is
\* skipped after its two draws), and at last the n noise samples.
DrawSize(op, n, k, drew) ==
    IF k = 0 THEN PhaseCount(op)
    ELSE IF k = PhaseCount(op) THEN n
    ELSE IF k > PhaseCount(op) + n /\ k = drew - n THEN n
    ELSE 1

InitConc ==
    /\ env = "unset"
    /\ call = NoCall
    /\ inp = NoOut
    /\ ret = Idle
    /\ det = NoDet
    /\ cmp = NoCmp
    /\ prof = NoProf
    /\ reg = NoReg
    /\ \E seeded \in BOOLEAN :
          M = IF seeded THEN set_seed(NoM, "unset", 7).m ELSE NoM
    /\ \E sync \in BOOLEAN, S \in ConcStrengths, op1 \in ConcOps, op2 \in ConcOps :
          conc = [NoConc EXCEPT
                    !.pc = "on", !.sync = sync, !.S = S, !.m0 = M,
                    !.heap = IF M.rng = None THEN <<>> ELSE <<M.rng>>,
                    !.cur = IF M.rng = None THEN 0 ELSE 1,
                    !.th = <<[NoThread EXCEPT !.pc = "start", !.op = op1],
                             [NoThread EXCEPT !.pc = "start", !.op = op2]>>]

\* The call of thread i as far as the values handed to it determine it.
ThreadRun(i) ==
    RunOp(conc.th[i].op, ConcSample(conc.th[i].op), conc.S,
          [rng |-> RngMod + i, py |-> None, np |-> None], env, 0)

\* The preemptions so far if thread i takes the next step.
Switches(i) ==
    IF conc.last \notin {0, i} /\ conc.th[conc.last].pc \notin {"start", "done"}
    THEN conc.sw + 1
    ELSE conc.sw

MayRun(i, pc) ==
    /\ conc.pc = "on"
    /\ conc.th[i].pc = pc
    /\ Switches(i) <= MaxSwitch

\* conc after a step of thread i that leaves the thread as t.
Stepped(i, t) == [conc EXCEPT !.th[i] = t, !.last = i, !.sw = Switches(i)]

\* The call begins (inside the caller's critical section, if there is one).
Enter(i) ==
    /\ MayRun(i, "start")
    /\ conc.sync => conc.lock = 0
    /\ conc' = [Stepped(i, [conc.th[i] EXCEPT !.pc = "check"])
                  EXCEPT !.lock = IF conc.sync THEN i ELSE 0]
    /\ UNCHANGED <<M, env, call, inp, ret, det, cmp, prof, reg>>

\* get_rng: if _RNG is None
CheckRng(i) ==
    /\ MayRun(i, "check")
    /\ conc' = Stepped(i, [conc.th[i] EXCEPT
                              !.pc = IF M.rng = None THEN "seed" ELSE "ret"])
    /\ UNCHANGED <<M, env, call, inp, ret, det, cmp, prof, reg>>

\* The state after thread i's set_seed(None) did r: _RNG refers to a new
\* generator, or the call has raised.
Seeded(i, r) ==
    /\ M' = r.m
    /\ conc' = IF r.ok
               THEN [Stepped(i, [conc.th[i] EXCEPT !.pc = "ret"])
                       EXCEPT !.heap = Append(conc.heap, r.m.rng),
                              !.cur = Len(conc.heap) + 1]
               ELSE [Stepped(i, [conc.th[i] EXCEPT
                                    !.pc = "done",
                                    !.ret = [status |-> "raise", why |-> "seed",
                                             out |-> NoOut]])
                       EXCEPT !.lock = 0]
    /\ UNCHANGED <<env, call, inp, ret, det, cmp, prof, reg>>

\* get_rng: set_seed(None)
SeedRng(i) ==
    /\ MayRun(i, "seed")
    /\ Seeded(i, set_seed(M, env, None))

\* get_rng: return _RNG
ReturnRng(i) ==
    /\ MayRun(i, "ret")
    /\ conc' = Stepped(i, [conc.th[i] EXCEPT !.pc = "draw", !.rng = conc.cur])
    /\ UNCHANGED <<M, env, call, inp, ret, det, cmp, prof, reg>>

\* The state after thread i's next generator call, made on instance x,
\* took c values, in a call that is to draw `drew` values.
Drawn(i, x, c, drew) ==
    /\ drew > Len(conc.th[i].got)
    /\ conc' = [Stepped(i, [conc.th[i] EXCEPT
                   !.got = @ \o [k \in 1..c |-> Raw(conc.heap[x], k - 1)]])
                  EXCEPT !.heap[x] = Adv(conc.heap[x], c)]
    /\ M' = IF x = conc.cur THEN [M EXCEPT !.rng = Adv(conc.heap[x], c)] ELSE M
    /\ UNCHANGED <<env, call, inp, ret, det, cmp, prof, reg>>

\* The next generator call of the operation thread i runs.
Draw(i) ==
    /\ MayRun(i, "draw")
    /\ \E drew \in {ThreadRun(i).drew} :
          Drawn(i, conc.th[i].rng,
                DrawSize(conc.th[i].op, 2, Len(conc.th[i].got), drew), drew)

\* The state after thread i's call ended as r.
Finished(i, r) ==
    /\ r.drew <= Len(conc.th[i].got)
    /\ conc' = [Stepped(i, [conc.th[i] EXCEPT
                   !.pc = "done",
                   !.ret = [status |-> r.status, why |-> r.why, out |-> r.out]])
                  EXCEPT !.lock = 0]
    /\ UNCHANGED <<M, env, call, inp, ret, det, cmp, prof, reg>>

\* The operation has made all its draws and returns.
Finish(i) ==
    /\ MayRun(i, "draw")
    /\ Finished(i, ThreadRun(i))

NextConc ==
    \/ \E i \in 1..2 : Enter(i)
    \/ \E i \in 1..2 : CheckRng(i)
    \/ \E i \in 1..2 : SeedRng(i)
    \/ \E i \in 1..2 : ReturnRng(i)
    \/ \E i \in 1..2 : Draw(i)
    \/ \E i \in 1..2 : Finish(i)

SpecConc == InitConc /\ [][NextConc]_vars

\* The outputs <<of thread 1, of thread 2>> when the two calls are made one
\* after the other from the initial module state, thread `first` first.
SerialOut(first) ==
    LET a == conc.th[first]
        b == conc.th[3 - first]
        ra == RunOp(a.op, ConcSample(a.op), conc.S, conc.m0, env, 0)
        rb == RunOp(b.op, ConcSample(b.op), conc.S, ra.m, env, 0)
    IN  IF first = 1 THEN <<ra.out, rb.out>> ELSE <<rb.out, ra.out>>

BothDone == conc.th[1].pc = "done" /\ conc.th[2].pc = "done"

ConcOut == <<conc.th[1].ret.out, conc.th[2].ret.out>>

----------------------------------------------------------------------------
(* profiles.py                                                             *)
(* A name is a word, whether it is written with upper-case letters, and    *)
(* whether it is surrounded by whitespace.  Multipliers are in tenths,     *)
(* strengths (their products) in hundredths.  A dict is a function; <<>>   *)
(* is the empty dict.                                                      *)

Nm(w) == [w |-> w, caps |-> FALSE, pad |-> FALSE]
Cap(w) == [w |-> w, caps |-> TRUE, pad |-> FALSE]

\* str.strip() and str.lower()
Strip(s) == [s EXCEPT !.pad = FALSE]
Lower(s) == [s EXCEPT !.caps = FALSE]

\* dict.get(k, default)
DictGet(d, k, default) == IF k \in DOMAIN d THEN d[k] ELSE default

_BASE_PROFILES ==
    (Nm("light") :> 5) @@ (Nm("privacy") :> 10) @@ (Nm("ghost") :> 15)
    @@ (Nm("chaos") :> 20)

_SENSOR_PROFILE_TWEAKS ==
    (Nm("lidar") :> ((Nm("ghost") :> 12) @@ (Nm("chaos") :> 13)))
    @@ (Nm("rf") :> ((Nm("ghost") :> 11) @@ (Nm("chaos") :> 13)))
    @@ (Nm("ultrasonic") :> (Nm("chaos") :> 9))

\* A `profiles` mapping of config/profiles.yaml: an override of a built-in
\* profile, a profile of its own without base and default, a profile whose
\* name has an upper-case letter, an entry without a value, and an entry
\* with only sensor factors, one under an upper-case sensor name.
YamlTable ==
    (Nm("privacy") :> [null |-> FALSE, base |-> 30,
                       sensors |-> (Nm("default") :> 20) @@ (Nm("lidar") :> 11)])
    @@ (Nm("stealth") :> [null |-> FALSE, base |-> None,
                          sensors |-> (Nm("rf") :> 11)])
    @@ (Cap("night") :> [null |-> FALSE, base |-> 20, sensors |-> <<>>])
    @@ (Nm("ghost") :> [null |-> TRUE, base |-> None, sensors |-> <<>>])
    @@ (Nm("chaos") :> [null |-> FALSE, base |-> None,
                        sensors |-> (Nm("default") :> 5) @@ (Cap("lidar") :> 30)])

\* What config/profiles.yaml can be: missing, unreadable, not YAML, empty
\* (null), a non-empty sequence or scalar at top level ("other"), or a
\* mapping whose `profiles` entry is absent, null, not a mapping ("other")
\* or a mapping (empty or YamlTable).
YamlFiles ==
    {[kind |-> k, profiles |-> "absent", table |-> <<>>] :
        k \in {"missing", "unreadable", "unparsable", "null", "other"}}
    \cup {[kind |-> "map", profiles |-> pk, table |-> <<>>] :
            pk \in {"absent", "null", "other", "map"}}
    \cup {[kind |-> "map", profiles |-> "map", table |-> YamlTable]}

\* _load_profiles_from_yaml() in module state pr:
\* [ok, cache, table]; ~ok is the AttributeError of data.get.
_load_profiles_from_yaml(pr) ==
    LET cached(t) == [ok |-> TRUE, cache |-> [loaded |-> TRUE, table |-> t],
                      table |-> t]
    IN  IF pr.cache.loaded THEN cached(pr.cache.table)
        ELSE IF ~pr.yaml THEN cached(<<>>)
        ELSE IF pr.file.kind = "missing" THEN cached(<<>>)
        ELSE IF pr.file.kind \in {"unreadable", "unparsable"} THEN cached(<<>>)
        ELSE IF pr.file.kind = "null" THEN cached(<<>>)
        ELSE IF pr.file.kind = "other"
        THEN [ok |-> FALSE, cache |-> pr.cache, table |-> <<>>]
        ELSE IF pr.file.profiles = "map" THEN cached(pr.file.table)
        ELSE cached(<<>>)

\* list_profiles(): [ok, cache, names]; the names as a set (their order is
\* not modelled).
list_profiles(pr) ==
    LET l == _load_profiles_from_yaml(pr)
    IN  [ok |-> l.ok, cache |-> l.cache,
         names |-> IF l.ok THEN DOMAIN _BASE_PROFILES \cup DOMAIN l.table ELSE {}]

\* A faulty factor: the `default` entry of the sensors is ignored.
YamlFactorNoDefault(sensors_cfg, s) == DictGet(sensors_cfg, s, 10)

\* sensors_cfg.get(s, sensors_cfg.get("default", 1.0))
YamlFactor(sensors_cfg, s) ==
    DictGet(sensors_cfg, s, DictGet(sensors_cfg, Nm("default"), 10))

\* get_profile_strength(profile, sensor_name): [status, exc, value, cache].
get_profile_strength(profile, sensor_name, pr) ==
    LET p == Lower(Strip(profile))
        s == Lower(Strip(sensor_name))
        l == _load_profiles_from_yaml(pr)
    IN  IF ~l.ok
        THEN [status |-> "raise", exc |-> "AttributeError", value |-> None,
              cache |-> l.cache]
        ELSE IF p \in DOMAIN l.table
        THEN LET cfg == l.table[p]
                 base == IF cfg.null \/ cfg.base = None
                         THEN DictGet(_BASE_PROFILES, p, 10) ELSE cfg.base
                 sensors_cfg == IF cfg.null THEN <<>> ELSE cfg.sensors
             IN  [status |-> "return", exc |-> "",
                  value |-> base * YamlFactor(sensors_cfg, s), cache |-> l.cache]
        ELSE IF p \notin DOMAIN _BASE_PROFILES
        THEN [status |-> "raise", exc |-> "KeyError", value |-> None,
              cache |-> l.cache]
        ELSE LET tweak_table == DictGet(_SENSOR_PROFILE_TWEAKS, s, <<>>)
             IN  [status |-> "return", exc |-> "",
                  value |-> _BASE_PROFILES[p] * DictGet(tweak_table, p, 10),
                  cache |-> l.cache]

\* The profile and sensor names callers pass.
ProfileArgs ==
    {Nm("privacy"), [w |-> "privacy", caps |-> TRUE, pad |-> TRUE], Nm("ghost"),
     Nm("chaos"), Nm("stealth"), Nm("night"), Nm("nope")}
SensorArgs ==
    {Nm("lidar"), [w |-> "lidar", caps |-> TRUE, pad |-> TRUE], Nm("rf"),
     Nm("ultrasonic"), Nm("depth")}

InitProf ==
    /\ M = NoM
    /\ env = "unset"
    /\ call = NoCall
    /\ inp = NoOut
    /\ ret = Idle
    /\ det = NoDet
    /\ cmp = NoCmp
    /\ conc = NoConc
    /\ reg = NoReg
    /\ \E yaml \in BOOLEAN, file \in YamlFiles :
          prof = [pc |-> "on", yaml |-> yaml, file |-> file,
                  cache |-> [loaded |-> FALSE, table |-> <<>>],
                  op |-> "none", profile |-> Nm(""), sensor |-> Nm(""),
                  status |-> "none", exc |-> "", value |-> None,
                  names |-> {}, listed |-> {}]

\* The state after list_profiles() did r.
Listed(r) ==
    /\ prof' = [prof EXCEPT
                  !.cache = r.cache, !.op = "list", !.profile = Nm(""),
                  !.sensor = Nm(""),
                  !.status = IF r.ok THEN "return" ELSE "raise",
                  !.exc = IF r.ok THEN "" ELSE "AttributeError",
                  !.value = None, !.names = r.names, !.listed = r.names]
    /\ UNCHANGED <<M, env, call, inp, ret, det, cmp, conc, reg>>

ListProfiles == prof.pc = "on" /\ Listed(list_profiles(prof))

\* The state after get_profile_strength(profile, sensor) did r.
Looked(profile, sensor, r) ==
    /\ prof' = [prof EXCEPT
                  !.cache = r.cache, !.op = "get", !.profile = profile,
                  !.sensor = sensor, !.status = r.status, !.exc = r.exc,
                  !.value = r.value, !.names = {}]
    /\ UNCHANGED <<M, env, call, inp, ret, det, cmp, conc, reg>>

\* A call with any name, one that list_profiles returned among them.
GetProfileStrength ==
    /\ prof.pc = "on"
    /\ \E profile \in ProfileArgs \cup prof.listed, sensor \in SensorArgs :
          Looked(profile, sensor, get_profile_strength(profile, sensor, prof))

NextProf ==
    \/ ListProfiles
    \/ GetProfileStrength

SpecProf == InitProf /\ [][NextProf]_vars

----------------------------------------------------------------------------
(* plugins.py                                                              *)
(* Functions are numbered 1, 2; 0 is an object that is not callable.       *)

MaxRegs == 3

\* The order of str: upper-case letters sort before lower-case ones.
NameRank(n) ==
    (IF n.caps THEN 0 ELSE 10)
    + (CASE n.w = "" -> 0 [] n.w = "depth" -> 1 [] OTHER -> 2)

\* A faulty register_sensor: the name is stored as passed.
register_sensor_unstripped(registry, name, fn) ==
    IF Strip(name).w = "" \/ fn \notin {1, 2}
    THEN [ok |-> FALSE, registry |-> registry]
    ELSE [ok |-> TRUE, registry |-> (name :> fn) @@ registry]

\* register_sensor(name, fn): [ok, registry]; ~ok is the ValueError.
register_sensor(registry, name, fn) ==
    LET key == Strip(name) IN
    IF key.w = "" THEN [ok |-> FALSE, registry |-> registry]
    ELSE IF fn \notin {1, 2} THEN [ok |-> FALSE, registry |-> registry]
    ELSE [ok |-> TRUE, registry |-> (key :> fn) @@ registry]

\* get_veil(name)
get_veil(registry, name) == DictGet(registry, Strip(name), None)

\* list_sensors(): sorted(_REGISTRY.keys())
list_sensors(registry) ==
    LET keys == DOMAIN registry
    IN  CHOOSE l \in [1..Cardinality(keys) -> keys] :
           \A i \in 1..Cardinality(keys), j \in 1..Cardinality(keys) :
              i < j => NameRank(l[i]) < NameRank(l[j])

\* The names and the functions callers pass.
PlugNames ==
    {Nm("lidar"), [w |-> "lidar", caps |-> FALSE, pad |-> TRUE], Cap("lidar"),
     Nm("depth"), Nm(""), [w |-> "", caps |-> FALSE, pad |-> TRUE]}

\* reg: the registry, the calls of register_sensor that returned (hist, for
\* the properties), and the last call with the registry as it found it.
InitPlug ==
    /\ M = NoM
    /\ env = "unset"
    /\ call = NoCall
    /\ inp = NoOut
    /\ ret = Idle
    /\ det = NoDet
    /\ cmp = NoCmp
    /\ conc = NoConc
    /\ prof = NoProf
    /\ reg = [pc |-> "on", registry |-> <<>>, hist |-> <<>>, regs |-> 0,
              op |-> "none", name |-> Nm(""), fn |-> None, ok |-> TRUE,
              value |-> None, names |-> <<>>, before |-> <<>>]

\* The state after register_sensor(name, fn) did r.
Registered(name, fn, r) ==
    /\ reg' = [reg EXCEPT
                 !.registry = r.registry,
                 !.hist = IF r.ok THEN Append(@, <<name, fn>>) ELSE @,
                 !.regs = @ + 1,
                 !.op = "register", !.name = name, !.fn = fn, !.ok = r.ok,
                 !.value = None, !.names = <<>>, !.before = reg.registry]
    /\ UNCHANGED <<M, env, call, inp, ret, det, cmp, conc, prof>>

RegisterSensor ==
    /\ reg.pc = "on"
    /\ reg.regs < MaxRegs
    /\ \E name \in PlugNames, fn \in {0, 1, 2} :
          Registered(name, fn, register_sensor(reg.registry, name, fn))

GetVeil ==
    /\ reg.pc = "on"
    /\ \E name \in PlugNames :
          reg' = [reg EXCEPT
                    !.op = "get", !.name = name, !.fn = None, !.ok = TRUE,
                    !.value = get_veil(reg.registry, name), !.names = <<>>,
                    !.before = reg.registry]
    /\ UNCHANGED <<M, env, call, inp, ret, det, cmp, conc, prof>>

ListSensors ==
    /\ reg.pc = "on"
    /\ reg' = [reg EXCEPT
                 !.op = "list", !.name = Nm(""), !.fn = None, !.ok = TRUE,
                 !.value = None, !.names = list_sensors(reg.registry),
                 !.before = reg.registry]
    /\ UNCHANGED <<M, env, call, inp, ret, det, cmp, conc, prof>>

NextPlug ==
    \/ RegisterSensor
    \/ GetVeil
    \/ ListSensors

SpecPlug == InitPlug /\ [][NextPlug]_vars

----------------------------------------------------------------------------
(* Long sequences: calls on which the anomaly windows can end before the   *)
(* end of the sequence.                                                    *)

\* The longest sequence passed.
MaxLongN == 21

\* Lengths at which every window is empty (1, 5), at which the only centre
\* is 5 (6, 12), and at which centres and ends vary.
WinLens == {1, 5, 6, 12, MaxLongN}

VeilLong ==
    /\ ret.status = "idle"
    /\ \E op \in AllOps \ {"fusion"}, n \in WinLens, S \in Strengths,
          entropy \in 0..(RngMod - 1) :
          Outcome(op, MkSample(Required(op), n, Plain, "f8"), S,
                  RunOp(op, MkSample(Required(op), n, Plain, "f8"), S, M, env, entropy))

NextWin == VeilLong \/ SetSeed \/ Release

SpecWin == Init /\ [][NextWin]_vars

----------------------------------------------------------------------------
(* A caller that keeps the generator get_rng() returned (as the            *)
(* integration example does) and draws from it, while the module is        *)
(* seeded anew.  conc.heap holds the state of every generator instance     *)
(* created, conc.cur is the instance _RNG names, conc.th[1].rng the        *)
(* instance the caller holds and conc.last the number of values drawn      *)
(* through it.  conc.sync tells that the module was seeded after the caller took   *)
(* its handle, conc.sw counts the draws through the handle since then.     *)
(* conc.m0 and conc.th[2].ret follow the module and the veil calls as if   *)
(* no value had been drawn through the handle since that seeding.          *)

\* The most values drawn through one handle, and the most instances.
MaxOld == 2
MaxHeap == 2

\* A faulty _init_rng: the existing generator is seeded anew in place.
_init_rng_in_place(heap, cur, state) ==
    IF cur = 0 THEN [heap |-> Append(heap, state), cur |-> Len(heap) + 1]
    ELSE [heap |-> [heap EXCEPT ![cur] = state], cur |-> cur]

\* _RNG = np.random.default_rng(seed_value): a new instance, which _RNG
\* names from now on.  Result: [heap, cur].
_init_rng(heap, cur, state) == [heap |-> Append(heap, state), cur |-> Len(heap) + 1]

\* The instances after a call that left the module's generator in state
\* `state`; `created` tells that the call went through _init_rng.
HandleAfter(c, created, state) ==
    IF created
    THEN LET b == _init_rng(c.heap, c.cur, state)
         IN  [c EXCEPT !.heap = b.heap, !.cur = b.cur]
    ELSE IF c.cur # 0 THEN [c EXCEPT !.heap[c.cur] = state]
    ELSE c

InitHandle ==
    /\ M = NoM
    /\ env = "unset"
    /\ call = NoCall
    /\ inp = NoOut
    /\ ret = Idle
    /\ det = NoDet
    /\ cmp = NoCmp
    /\ conc = [NoConc EXCEPT !.pc = "handle"]
    /\ prof = NoProf
    /\ reg = NoReg

\* rng = get_rng(), once: the caller takes the instance _RNG names.
HandleGet ==
    /\ conc.pc = "handle"
    /\ ret.status = "idle"
    /\ conc.th[1].rng = 0
    /\ M.rng = None => Len(conc.heap) < MaxHeap
    /\ LET r == get_rng(M, env)
           c == HandleAfter(conc, M.rng = None /\ r.ok, r.m.rng)
       IN  /\ M' = r.m
           /\ call' = [op |-> "get_rng", sample |-> NoOut, S |-> None, m |-> M]
           /\ ret' = [Idle EXCEPT !.status = IF r.ok THEN "return" ELSE "raise",
                                  !.exc = IF r.ok THEN "" ELSE "ValueError",
                                  !.why = IF r.ok THEN "" ELSE "seed",
                                  !.value = IF r.ok THEN r.m.rng ELSE None]
           /\ conc' = IF r.ok
                      THEN [c EXCEPT !.th[1].rng = c.cur, !.m0 = r.m]
                      ELSE conc
    /\ UNCHANGED <<env, inp, det, cmp, prof, reg>>

\* rng.normal() on the handle the caller holds.
HandleDraw ==
    /\ conc.pc = "handle"
    /\ ret.status = "idle"
    /\ conc.th[1].rng # 0
    /\ conc.last < MaxOld
    /\ LET h == conc.th[1].rng
           heap == [conc.heap EXCEPT ![h] = Adv(@, 1)]
       IN  /\ M' = [M EXCEPT !.rng = heap[conc.cur]]
           /\ conc' = [conc EXCEPT
                         !.heap = heap,
                         !.last = @ + 1,
                         !.sw = IF conc.sync THEN @ + 1 ELSE @,
                         !.m0 = IF conc.sync THEN @ ELSE [@ EXCEPT !.rng = heap[conc.cur]]]
    /\ UNCHANGED <<env, call, inp, ret, det, cmp, prof, reg>>

\* The state after set_seed(v), called as `op`, had the result r.
HandleSeeded(op, v, r) ==
    /\ M' = r.m
    /\ call' = [op |-> op, sample |-> NoOut, S |-> v, m |-> M]
    /\ ret' = [Idle EXCEPT !.status = IF r.ok THEN "return" ELSE "raise",
                           !.exc = IF r.ok THEN "" ELSE "ValueError",
                           !.why = IF r.ok THEN "" ELSE "seed",
                           !.value = IF op = "set_seed" THEN r.seed ELSE None]
    /\ conc' = IF r.ok
               THEN [HandleAfter(conc, TRUE, r.m.rng)
                       EXCEPT !.sync = conc.th[1].rng # 0, !.sw = 0, !.m0 = r.m]
               ELSE conc
    /\ UNCHANGED <<env, inp, det, cmp, prof, reg>>

HandleSetSeed ==
    /\ conc.pc = "handle"
    /\ ret.status = "idle"
    /\ Len(conc.heap) < MaxHeap
    /\ \E v \in Seeds : HandleSeeded("set_seed", v, set_seed(M, env, v))

HandleReseed ==
    /\ conc.pc = "handle"
    /\ ret.status = "idle"
    /\ Len(conc.heap) < MaxHeap
    /\ HandleSeeded("reseed", None, set_seed(M, env, None))

\* The state after the veil call the caller makes had the result r; x is the result it has
\* when the module is in state conc.m0.
HandleVeiled(op, sample, S, r, x) ==
    /\ M' = r.m
    /\ call' = [op |-> op, sample |-> sample, S |-> S, m |-> M]
    /\ inp' = AfterWrites(sample, r.written)
    /\ ret' = [status |-> r.status, exc |-> r.exc, why |-> r.why,
               named |-> r.named, out |-> r.out, value |-> None, drew |-> r.drew,
               info |-> r.info]
    /\ conc' = [HandleAfter(conc, M.rng = None /\ r.m.rng # None, r.m.rng)
                  EXCEPT !.m0 = x.m,
                         !.th[2].ret = [status |-> x.status, why |-> x.why, out |-> x.out]]
    /\ UNCHANGED <<env, det, cmp, prof, reg>>

HandleVeil ==
    /\ conc.pc = "handle"
    /\ ret.status = "idle"
    /\ M.rng = None => Len(conc.heap) < MaxHeap
    /\ \E sample \in {ConcSample("rf")}, S \in ConcStrengths :
          HandleVeiled("rf", sample, S,
                       veil_rf(sample, S, M, env), veil_rf(sample, S, conc.m0, env))

NextHandle ==
    \/ HandleGet
    \/ HandleDraw
    \/ HandleSetSeed
    \/ HandleReseed
    \/ HandleVeil
    \/ Release

SpecHandle == InitHandle /\ [][NextHandle]_vars

----------------------------------------------------------------------------
(* Properties                                                              *)

PerChannelOps == AllOps \ {"fusion"}

\* The last call was op(sample) on a sample holding every required channel.
ValidCall ==
    /\ call.op \in PerChannelOps
    /\ Required(call.op) \subseteq DOMAIN call.sample

\* The common length of the channels passed to the last per-channel call.
CallN == Len(call.sample["t"].data)

HasResult == ret.status \in {"return", "written"}

\* The last call was veil_fusion_timeseries on a non-empty mapping of 1-D streams.
FusionValid ==
    /\ call.op = "fusion"
    /\ DOMAIN call.sample # {}
    /\ \A k \in DOMAIN call.sample : call.sample[k].ndim = 1

\* min(len(s) for s in inputs)
MinLen(sensors) ==
    CHOOSE n \in {Len(sensors[k].data) : k \in DOMAIN sensors} :
        \A k \in DOMAIN sensors : n <= Len(sensors[k].data)

\* The input of the last call fails the schema check of its operation.
SchemaInvalid ==
    \/ call.op \in PerChannelOps /\ ~(Required(call.op) \subseteq DOMAIN call.sample)
    \/ call.op = "fusion" /\ DOMAIN call.sample = {}
    \/ call.op = "fusion" /\ \E k \in DOMAIN call.sample : call.sample[k].ndim # 1

SchemaWhy == {"missing keys", "empty", "not 1D"}

\* The values of a sequence after conversion to float32.
AsF32(x) == [i \in 1..Len(x) |-> F32(x[i])]

\* C1: a per-channel call on a mapping that lacks required channel names
\* fails with a ValueError, and the keys the error names are exactly the
\* required set minus the input's key set.
C1_MissingKeysNamed ==
    (call.op \in PerChannelOps /\ ~(Required(call.op) \subseteq DOMAIN call.sample))
    => /\ ret.status = "raise"
       /\ ret.exc = "ValueError"
       /\ ret.why = "missing keys"
       /\ ret.named = Required(call.op) \ DOMAIN call.sample

\* An IMU call on a sample with an extra channel and two required channels
\* missing has failed, naming two keys.
C1_Witness ==
    /\ call.op = "imu"
    /\ "aux" \in DOMAIN call.sample
    /\ Cardinality(Required("imu") \ DOMAIN call.sample) = 2
    /\ ret.status = "raise"
    /\ Cardinality(ret.named) = 2

\* C2: a per-channel call on a sample whose channels all have length 0
\* returns a mapping with exactly the input's keys, each an empty sequence,
\* draws nothing and leaves the random_control module as it was (the shared
\* generator neither initialised nor advanced).
C2_EmptyInput ==
    (ValidCall /\ \A k \in DOMAIN call.sample : Len(call.sample[k].data) = 0)
    => /\ ret.status = "return"
       /\ DOMAIN ret.out = DOMAIN call.sample
       /\ \A k \in DOMAIN ret.out : ret.out[k].data = <<>>
       /\ ret.drew = 0
       /\ M = call.m

\* A call on an empty sample with an extra channel returned while the shared
\* generator had never been initialised.
C2_Witness ==
    /\ ValidCall
    /\ "aux" \in DOMAIN call.sample
    /\ CallN = 0
    /\ ret.status = "return"
    /\ call.m.rng = None
    /\ M.rng = None

\* C3: a per-channel call on a sample of length N >= 1 that returns, returns
\* a mapping with the input's key set in which every channel has the length
\* of the corresponding input channel.
C3_SameKeysAndLengths ==
    (ValidCall /\ CallN >= 1 /\ HasResult)
    => /\ DOMAIN ret.out = DOMAIN call.sample
       /\ \A k \in DOMAIN call.sample :
             Len(ret.out[k].data) = Len(call.sample[k].data)

\* The ultrasonic operation returned for a sample of length 3 with negative
\* ranges, after drawing and clipping.
C3_Witness ==
    /\ call.op = "ultrasonic"
    /\ ValidCall
    /\ CallN = 3
    /\ call.sample["range"].data[1] < 0
    /\ ret.status = "return"
    /\ ret.drew > 0

\* C4: veil_fusion_timeseries on a non-empty mapping of 1-D streams returns
\* (unless the generator cannot be seeded from the environment) a mapping
\* with exactly the input's stream names, every stream of length
\* N = min(len(s) for s in inputs), for every N >= 0.
C4_FusionLength ==
    (FusionValid /\ ret.why # "seed")
    => /\ HasResult
       /\ DOMAIN ret.out = DOMAIN call.sample
       /\ \A k \in DOMAIN ret.out : Len(ret.out[k].data) = MinLen(call.sample)

\* C5: no veil operation modifies its input: after the call returned or
\* failed, and after later writes to the output, the caller's mapping has
\* the same keys and values as when it was passed, and no returned sequence
\* shares storage with an input sequence.
C5_InputUntouched ==
    (call.op \in AllOps)
    => /\ DOMAIN inp = DOMAIN call.sample
       /\ \A k \in DOMAIN inp : inp[k].data = call.sample[k].data
       /\ HasResult =>
             \A ko \in DOMAIN ret.out, ki \in DOMAIN call.sample :
                 ret.out[ko].buf # call.sample[ki].buf

\* The caller wrote into the output of a barometer call on float32 input.
C5_Witness ==
    /\ call.op = "barometer"
    /\ ValidCall
    /\ CallN >= 1
    /\ call.sample["pressure"].dtype = "f4"
    /\ ret.status = "written"
    /\ ret.out["pressure"].data # <<>>

\* C6: two runs of the identical call, each made immediately after
\* set_seed(s) with the same explicit seed, return identical outputs.
C6_Deterministic == det.pc = "done" => det.out2 = det.out1

\* C7: a schema error is raised exactly for an input that fails the schema
\* check (wherever the offending stream stands), and when it is raised the
\* call has drawn nothing, the random_control module is as it was, the input
\* is unchanged and no output mapping is returned.
C7_SchemaErrorFirst ==
    (SchemaInvalid \/ ret.why \in SchemaWhy)
    => /\ SchemaInvalid
       /\ ret.status = "raise"
       /\ ret.exc = "ValueError"
       /\ ret.why \in SchemaWhy
       /\ ret.drew = 0
       /\ M = call.m
       /\ ret.out = NoOut
       /\ inp = call.sample

\* A fusion call whose only non-1-D stream is "power" was refused while the
\* shared generator had never been initialised.
C7_Witness ==
    /\ call.op = "fusion"
    /\ DOMAIN call.sample = {"pressure", "power"}
    /\ call.sample["pressure"].ndim = 1
    /\ call.sample["power"].ndim = 2
    /\ ret.status = "raise"
    /\ ret.why = "not 1D"
    /\ M.rng = None

\* C8: for an input that passes validation and has N >= 1, no per-channel or
\* fusion call fails after it has started drawing from the generator.
C8_AllOrNothing ==
    (/\ \/ ValidCall /\ CallN >= 1
        \/ FusionValid /\ MinLen(call.sample) >= 1
     /\ ret.status = "raise")
    => ret.drew = 0

\* C9 as stated: the time channel and every channel that is not a distortion
\* target are returned with the same values as in the input.
C9_NonTargetsSame ==
    (ValidCall /\ ret.status = "return")
    => \A k \in DOMAIN call.sample \ (Required(call.op) \ {"t"}) :
          /\ k \in DOMAIN ret.out
          /\ ret.out[k].data = call.sample[k].data

\* C9 amended: the time channel and every channel that is not a distortion
\* target are returned with the input's values converted to float32.
C9_NonTargetsFloat32 ==
    (ValidCall /\ ret.status = "return")
    => \A k \in DOMAIN call.sample \ (Required(call.op) \ {"t"}) :
          /\ k \in DOMAIN ret.out
          /\ ret.out[k].data = AsF32(call.sample[k].data)

\* A call on a float64 sample with an extra channel returned a time channel
\* that differs from the input's.
C9_Witness ==
    /\ ValidCall
    /\ "aux" \in DOMAIN call.sample
    /\ call.sample["t"].dtype = "f8"
    /\ CallN >= 2
    /\ ret.status = "return"
    /\ ret.out["t"].data # call.sample["t"].data

\* C10: every sample of the range channel returned by veil_ultrasonic for a
\* valid input with N >= 1 is >= 0 and <= r_max + 0.5 * span, r_max and span
\* computed from the input channel.
C10_RangeBounds ==
    (call.op = "ultrasonic" /\ ValidCall /\ CallN >= 1 /\ ret.status = "return")
    => LET r == AsF32(call.sample["range"].data)
           r_max == SeqMax(r)
           span == Max2(r_max - SeqMin(r), 10)
       IN  \A j \in 1..Len(ret.out["range"].data) :
              /\ ret.out["range"].data[j] >= 0
              /\ ret.out["range"].data[j] <= r_max + span \div 2

\* C11: every pressure sample returned by veil_barometer for a valid input
\* with N >= 1 lies within bounds computed from the input alone; the bounds
\* taken are those veil_ultrasonic clips to, widened to both sides:
\* p_min - 0.5 * span <= pressure <= p_max + 0.5 * span.
C11_PressureBounds ==
    (call.op = "barometer" /\ ValidCall /\ CallN >= 1 /\ ret.status = "return")
    => LET p == AsF32(call.sample["pressure"].data)
           p_min == SeqMin(p)
           p_max == SeqMax(p)
           span == Max2(p_max - p_min, 10)
       IN  \A j \in 1..Len(ret.out["pressure"].data) :
              /\ ret.out["pressure"].data[j] >= p_min - span \div 2
              /\ ret.out["pressure"].data[j] <= p_max + span \div 2

\* C12: every per-channel call with N >= 1 that returned attempted at least
\* one anomaly event.
C12_AtLeastOneEvent ==
    (ValidCall /\ CallN >= 1 /\ ret.status = "return") => ret.info.count >= 1

\* C13: for the same jitter draw and strengths s1 <= s2, the anomaly count
\* at s1 is at most the count at s2.
C13_CountMonotone == cmp.pc = "done" => cmp.c1 <= cmp.c2

\* The magnetometer counts at strengths 0.2 and 1.3 for jitter 2 were
\* compared and differ.
C13_Witness ==
    /\ cmp.pc = "done"
    /\ cmp.op = "magnetometer"
    /\ cmp.s1 = 2
    /\ cmp.s2 = 13
    /\ cmp.j = 2
    /\ cmp.c1 < cmp.c2

\* C14: with strength = 0 the drift, the anomaly contribution and the noise
\* of a per-channel operation are all zero: every target channel is returned
\* equal to the input (converted to float32).
C14_ZeroStrengthIdentity ==
    (ValidCall /\ CallN >= 1 /\ call.S = 0 /\ ret.status = "return")
    => \A k \in Required(call.op) \ {"t"} :
          ret.out[k].data = AsF32(call.sample[k].data)

\* C15: in a fusion call that returns, the latent sequences are drawn once,
\* before any weight vector, and every stream's output is its truncated
\* input plus scale_i * (w_i . latents) over that one set, the weight vector
\* w_i drawn separately for stream i after the latents: the call draws
\* 2N + 2 values for the latents and 3 per stream.
C15_SharedLatents ==
    (FusionValid /\ ret.status = "return" /\ MinLen(call.sample) >= 1)
    => LET n == MinLen(call.sample)
           g0 == get_rng(call.m, env).m.rng
           names == InOrder(DOMAIN call.sample, 1)
           shared == FusionLatents(g0, n, call.S)
       IN  /\ ret.drew = 2 * n + 2 + 3 * Len(names)
           /\ \A i \in 1..Len(names) :
                 ret.out[names[i]].data =
                    FusionMix(Prefix(AsF32(call.sample[names[i]].data), n), shared,
                              Direction(g0, 2 * n + 2 + 3 * (i - 1)), call.S,
                              Len(ret.out[names[i]].data))

\* A fusion call on two streams of length >= 5 returned at full strength
\* with both streams changed.
C15_Witness ==
    /\ FusionValid
    /\ DOMAIN call.sample = {"pressure", "power"}
    /\ MinLen(call.sample) >= 5
    /\ call.S = 10
    /\ ret.status = "return"
    /\ ret.out["pressure"].data # Prefix(AsF32(call.sample["pressure"].data), MinLen(call.sample))
    /\ ret.out["power"].data # Prefix(AsF32(call.sample["power"].data), MinLen(call.sample))

\* C16: in a fusion call with minimum stream length N >= 1 each of the three
\* latent sequences has length exactly N.
C16_LatentLengths ==
    (FusionValid /\ MinLen(call.sample) >= 1 /\ ret.info.lat # <<>>)
    => \A i \in 1..3 : ret.info.lat[i] = MinLen(call.sample)

C18_NoCrash ==
    (conc.pc = "on" /\ ~conc.sync)
    => \A i \in 1..2 :
          conc.th[i].pc = "done" => conc.th[i].ret.status = "return"

\* ... while in some interleaving a call's output is its output in neither
\* serial order.
C18_Witness ==
    /\ conc.pc = "on"
    /\ ~conc.sync
    /\ BothDone
    /\ conc.th[1].op = "barometer"
    /\ conc.th[1].ret.status = "return"
    /\ conc.th[2].ret.status = "return"
    /\ ConcOut[1] \notin {SerialOut(1)[1], SerialOut(2)[1]}

\* C19: get_rng returns the same generator instance to every caller, also
\* when the first get_rng calls of two threads race on the uninitialised
\* state.
C19_OneInstance ==
    \A i \in 1..2, j \in 1..2 :
       (conc.th[i].rng # 0 /\ conc.th[j].rng # 0)
       => conc.th[i].rng = conc.th[j].rng

\* C20: in a single thread the shared generator is uninitialised at first;
\* a get_rng call that finds it uninitialised does to the module exactly
\* what set_seed(None) does; a get_rng call that returns returns the shared
\* generator, never None; a get_rng call (by the user or by a veil
\* operation) that finds a generator leaves it in place, only advanced by
\* the draws the operation makes (a veil operation that finds none works,
\* if it gets that far, on the one set_seed(None) makes); and every
\* set_seed or reseed call that returns leaves a freshly seeded generator,
\* while nothing else touches it.
C20_Lifecycle ==
    /\ M.rng = None
    /\ [][/\ (ret.status = "idle" /\ ret'.status # "idle" /\ call'.op = "get_rng")
             => /\ M.rng = None
                   => /\ M' = set_seed(M, env, None).m
                      /\ (ret'.status = "return") = set_seed(M, env, None).ok
                /\ M.rng # None => (M' = M /\ ret'.status = "return")
                /\ ret'.status = "return"
                   => (ret'.value # None /\ ret'.value = M'.rng)
          /\ (ret.status = "idle" /\ ret'.status # "idle"
                /\ call'.op \in {"set_seed", "reseed"})
             => IF ret'.status = "return"
                THEN M'.rng = DefaultRng(M'.np)
                ELSE M'.rng = M.rng
          /\ (ret.status = "idle" /\ ret'.status # "idle"
                /\ call'.op \notin {"get_rng", "set_seed", "reseed"})
             => LET first == set_seed(M, env, None).m
                IN  IF call'.op = "imu" THEN M' = M
                    ELSE IF M.rng # None
                    THEN M' = [M EXCEPT !.rng = Adv(M.rng, ret'.drew)]
                    ELSE \/ M' = M
                         \/ /\ first.rng # None
                            /\ M' = [first EXCEPT !.rng = Adv(first.rng, ret'.drew)]
          /\ ret.status # "idle" => M' = M
         ]_vars

\* get_rng was called on a generator that veil calls had advanced since it
\* was seeded, and returned that generator as it was.
C20_Witness ==
    /\ call.op = "get_rng"
    /\ ret.status = "return"
    /\ call.m.rng # None
    /\ call.m.rng # DefaultRng(call.m.np)
    /\ ret.value = call.m.rng
    /\ M = call.m

\* C21: set_seed(v) with an explicit integer v seeds the shared generator
\* with v and returns v; set_seed(None) applies and returns the integer
\* value of DATA_VEIL_SEED when it is set and 42 otherwise; reseed() has the
\* effect of set_seed(None).
C21_SeedApplied ==
    /\ (call.op = "set_seed"
          /\ (call.S # None \/ env = "unset" \/ EnvIsInt(env)))
       => LET applied == IF call.S # None THEN call.S
                         ELSE IF env = "unset" THEN 42 ELSE EnvInt(env)
          IN  /\ ret.status = "return"
              /\ ret.value = applied
              /\ M = [rng |-> DefaultRng(applied), py |-> applied, np |-> applied]
    /\ call.op = "reseed" => M = set_seed(call.m, env, None).m

\* C22: when the trimmed, lower-cased profile name is defined in the loaded
\* external profiles, the strength returned is base * factor with base the
\* profile's `base` (else the built-in base, else 1.0) and factor the
\* `sensors` entry of the lower-cased sensor name (else `default`, else
\* 1.0), without the built-in tweaks; otherwise it is the built-in base
\* times the built-in tweak of (sensor, profile), 1.0 if there is none.
C22_ExternalFirst ==
    (prof.pc = "on" /\ prof.op = "get" /\ prof.status = "return")
    => LET p == Lower(Strip(prof.profile))
           s == Lower(Strip(prof.sensor))
           ext == prof.cache.table
       IN  IF p \in DOMAIN ext
           THEN LET own == ~ext[p].null /\ ext[p].base # None
                    base == IF own THEN ext[p].base
                            ELSE IF p \in DOMAIN _BASE_PROFILES
                            THEN _BASE_PROFILES[p] ELSE 10
                    sens == IF ext[p].null THEN <<>> ELSE ext[p].sensors
                    factor == IF s \in DOMAIN sens THEN sens[s]
                              ELSE IF Nm("default") \in DOMAIN sens
                              THEN sens[Nm("default")] ELSE 10
                IN  prof.value = base * factor
           ELSE LET tweak == IF s \in DOMAIN _SENSOR_PROFILE_TWEAKS
                                /\ p \in DOMAIN _SENSOR_PROFILE_TWEAKS[s]
                             THEN _SENSOR_PROFILE_TWEAKS[s][p] ELSE 10
                IN  prof.value = _BASE_PROFILES[p] * tweak

\* " Privacy " was looked up for a sensor without an entry of its own under
\* an external configuration that overrides the built-in profile: the
\* external base 3.0 times the external default 2.0.
C22_Witness ==
    /\ prof.pc = "on"
    /\ prof.op = "get"
    /\ prof.status = "return"
    /\ prof.profile = [w |-> "privacy", caps |-> TRUE, pad |-> TRUE]
    /\ prof.sensor = Nm("rf")
    /\ Nm("privacy") \in DOMAIN prof.cache.table
    /\ prof.value = 600

\* C23: get_profile_strength raises KeyError exactly when the trimmed,
\* lower-cased profile name is in neither the loaded external profiles nor
\* the built-in table; for every other profile name and every sensor name
\* it returns a number and does not raise.
C23_KeyErrorOnly ==
    (prof.pc = "on" /\ prof.op = "get")
    => LET p == Lower(Strip(prof.profile))
       IN  IF p \notin DOMAIN prof.cache.table /\ p \notin DOMAIN _BASE_PROFILES
           THEN prof.status = "raise" /\ prof.exc = "KeyError"
           ELSE prof.status = "return" /\ prof.value # None

\* C24: when the YAML library is unavailable, or the file is missing,
\* unreadable, unparsable, or parses to something whose top level or whose
\* `profiles` entry is not a mapping, no error of the loading reaches the
\* caller, and list_profiles and get_profile_strength behave as with the
\* built-in defaults only.
C24_LoadNeverRaises ==
    (prof.pc = "on" /\ prof.op # "none"
       /\ (~prof.yaml \/ prof.file.kind # "map" \/ prof.file.profiles # "map"))
    => /\ prof.exc # "AttributeError"
       /\ prof.op = "list"
          => (prof.status = "return" /\ prof.names = DOMAIN _BASE_PROFILES)
       /\ prof.op = "get"
          => LET p == Lower(Strip(prof.profile))
             IN  IF p \in DOMAIN _BASE_PROFILES
                 THEN prof.status = "return"
                 ELSE prof.status = "raise" /\ prof.exc = "KeyError"

\* C30: every name list_profiles returned is accepted by
\* get_profile_strength, for every sensor name: the call returns a number.
C30_ListedAccepted ==
    (prof.pc = "on" /\ prof.op = "get" /\ prof.profile \in prof.listed)
    => (prof.status = "return" /\ prof.value # None)

\* C25: the registry is a last-write-wins table: get_veil(name) returns the
\* function of the most recent register_sensor call that returned and whose
\* trimmed name is the trimmed lookup name, None if there is none; a
\* register_sensor call is rejected exactly for a name empty after trimming
\* or a function that is not callable, and then leaves the registry as it
\* was; get_veil and list_sensors leave the registry as it was, and
\* list_sensors returns the registered names sorted, each once.
C25_LastWriteWins ==
    reg.pc = "on"
    => LET latest(name) ==
             LET at == {i \in 1..Len(reg.hist) : Strip(reg.hist[i][1]) = Strip(name)}
             IN  IF at = {} THEN None
                 ELSE reg.hist[CHOOSE i \in at : \A j \in at : j <= i][2]
       IN  /\ \A name \in PlugNames :
                DictGet(reg.registry, Strip(name), None) = latest(name)
           /\ reg.op = "get" => (reg.value = latest(reg.name)
                                 /\ reg.registry = reg.before)
           /\ reg.op = "register"
              => /\ reg.ok = (Strip(reg.name).w # "" /\ reg.fn \in {1, 2})
                 /\ ~reg.ok => reg.registry = reg.before
           /\ reg.op = "list"
              => /\ reg.registry = reg.before
                 /\ Len(reg.names) = Cardinality(DOMAIN reg.registry)
                 /\ {reg.names[i] : i \in 1..Len(reg.names)} = DOMAIN reg.registry
                 /\ \A i \in 1..Len(reg.names), j \in 1..Len(reg.names) :
                       i < j => NameRank(reg.names[i]) < NameRank(reg.names[j])

\* A name was registered twice, written differently, with two functions,
\* and looked up under a third spelling: the second function came back.
C25_Witness ==
    /\ reg.pc = "on"
    /\ reg.op = "get"
    /\ reg.name = Nm("lidar")
    /\ reg.value = 2
    /\ Len(reg.hist) = 2
    /\ reg.hist[1] = <<Nm("lidar"), 1>>
    /\ reg.hist[2] = <<[w |-> "lidar", caps |-> FALSE, pad |-> TRUE], 2>>

\* The shape of an array: (N,) or (N, cols).
ShapeOf(arr) ==
    IF arr.ndim = 1 THEN <<Len(arr.data)>> ELSE <<Len(arr.data) \div arr.cols, arr.cols>>

\* C26: every veil_lidar call that returns yields an array of the shape of
\* its input, (N,) for ranges and (N, 3) for a point cloud, whatever the
\* strength and the draws.
C26_SameShape ==
    (call.op = "lidar" /\ ret.status = "return")
        => ShapeOf(ret.out["lidar"]) = ShapeOf(call.sample["lidar"])

\* The longest window an anomaly of the operation can have: one less than
\* the exclusive upper bound of its window-length draw.
MaxWindow(op) ==
    CASE op = "barometer"    -> 59
      [] op = "rf"           -> 79
      [] op = "ultrasonic"   -> 59
      [] op = "magnetometer" -> 39
      [] OTHER               -> 9

\* C27: in the barometer, magnetometer, RF, ultrasonic and IMU operations
\* every applied anomaly has a window [center, end) with 5 <= center < end
\* <= N no longer than the sensor's maximum, the samples the anomaly stage
\* changes all lie in such a window, an anomaly whose window is empty (all
\* of them when N <= 5) is skipped without error, and samples 0..4 are
\* never changed by an anomaly.
C27_WindowsOnly ==
    (call.op \in AllOps \ {"fusion"} /\ ret.status # "idle")
    => /\ ret.status = "raise" => ret.why = "seed"
       /\ Len(ret.info.stage.wins) <= ret.info.count
       /\ \A i \in 1..Len(ret.info.stage.wins) :
             LET w == ret.info.stage.wins[i]
             IN  5 <= w[1] /\ w[1] < w[2] /\ w[2] <= ret.info.n
                 /\ w[2] - w[1] <= MaxWindow(call.op)
       /\ \A j \in 1..Len(ret.info.stage.touched) :
             ret.info.stage.touched[j]
             => /\ j > 5
                /\ \E i \in 1..Len(ret.info.stage.wins) :
                      ret.info.stage.wins[i][1] < j /\ j <= ret.info.stage.wins[i][2]
       /\ ret.info.n <= 5 => ret.info.stage.wins = <<>>

\* A call on a long sequence in which an anomaly was applied on a window
\* that ends before the end of the sequence, and one was cut at the end.
C27_Witness ==
    /\ call.op \in AllOps \ {"fusion"}
    /\ ret.status = "return"
    /\ \E j \in 1..Len(ret.info.stage.touched) : ret.info.stage.touched[j]
    /\ \E i \in 1..Len(ret.info.stage.wins) : ret.info.stage.wins[i][2] < ret.info.n
    /\ \E i \in 1..Len(ret.info.stage.wins) : ret.info.stage.wins[i][2] = ret.info.n

\* C28: in every barometer, magnetometer, RF, ultrasonic and fusion call
\* with N >= 1 that computes its statistics, the span and the standard
\* deviation used are at least 1e-3, and in the four single-sensor
\* operations the denominator of the time normalization is at least 1e-6,
\* whatever the channel values and timestamps.
C28_Floors ==
    (call.op \in AllOps \ {"imu"} /\ ret.status = "return" /\ ret.info.n >= 1)
    => /\ ret.info.span >= 10
       /\ ret.info.std >= 10
       /\ call.op # "fusion" => ret.info.den >= 1

\* A call on a constant channel with equal timestamps: all three floors
\* are what the call uses.
C28_Witness ==
    /\ call.op \in AllOps \ {"imu", "fusion"}
    /\ ret.status = "return"
    /\ ret.info.n >= 2
    /\ ret.info.span = 10
    /\ ret.info.std = 10
    /\ ret.info.den = 1

\* C29: once set_seed or reseed has run after the caller took a generator
\* from get_rng, the generator the caller holds is no longer the instance
\* get_rng returns, the shared generator is in the state it has when no
\* value is drawn through the old handle, and a veil call made then has
\* the outcome it has when no value is drawn through the old handle.
C29_Detached ==
    (conc.pc = "handle" /\ conc.sync)
    => /\ conc.th[1].rng # conc.cur
       /\ M = conc.m0
       /\ M.rng = conc.heap[conc.cur]
       /\ call.op = "rf"
          => /\ ret.status = conc.th[2].ret.status
             /\ ret.out = conc.th[2].ret.out

\* After a reseed the caller drew values through the handle it held, and
\* a veil call then returned.
C29_Witness ==
    /\ conc.pc = "handle"
    /\ conc.sync
    /\ conc.sw >= 2
    /\ call.op = "rf"
    /\ ret.status = "return"

====
